---------------------------- MODULE Spec2Model ----------------------------
(***************************************************************************)
(* A model of p2p-share: the file-transfer state machine of                *)
(* crates/core (sender.rs, receiver.rs), the Noise channel and framing of  *)
(* crypto.rs, and the event wrappers of the CLI and the embedding          *)
(* controller.                                                             *)
(*                                                                         *)
(* Bytes, characters and text are all sequences of integers 0..255 (a      *)
(* character is its ASCII code), so that a frame, a header line, a file    *)
(* name and file data are values of one type, as they are on the wire.     *)
(***************************************************************************)
EXTENDS Integers, Sequences, FiniteSets, TLC

----------------------------------------------------------------------------
(* Bounds of the model.                                                    *)

\* Plaintext bytes per data frame (CHUNK_SIZE is 60 KiB in protocol.rs).
ChunkSize == 2
\* Longest source file, in bytes.
MaxFileLen == 2
\* Frames the remote environment of an unlinked peer may feed it.
MaxFeeds == 4
\* Sessions a host starts, one after the other.
MaxSessions == 2
\* Events in the history of a host's queue beyond which drivers and watchers
\* emit no more non-terminal events.
MaxLog == 3
\* A capacity to hold the host's queue against; the code names none.
QueueCapacity == 4

----------------------------------------------------------------------------
(* Text helpers.                                                           *)

\* b"OK\n" and b"DONE\n".
OkMsg == <<79, 75, 10>>
DoneMsg == <<68, 79, 78, 69, 10>>

\* char::is_whitespace on the ASCII range, as str::trim uses it.
IsSpace(c) == c \in {9, 10, 11, 12, 13, 32}

RECURSIVE TrimStart(_)
TrimStart(s) ==
    IF s # <<>> /\ IsSpace(Head(s)) THEN TrimStart(Tail(s)) ELSE s

RECURSIVE TrimEnd(_)
TrimEnd(s) ==
    IF s # <<>> /\ IsSpace(s[Len(s)])
    THEN TrimEnd(SubSeq(s, 1, Len(s) - 1))
    ELSE s

\* str::trim
Trim(s) == TrimEnd(TrimStart(s))

\* One lower-case hex digit.
HexDigit(n) == IF n < 10 THEN 48 + n ELSE 87 + n

\* hex::encode: format!("{:02x}", b) for every byte.
RECURSIVE hex_encode(_)
hex_encode(bytes) ==
    IF bytes = <<>> THEN <<>>
    ELSE <<HexDigit(Head(bytes) \div 16), HexDigit(Head(bytes) % 16)>>
         \o hex_encode(Tail(bytes))

\* Decimal digits of a natural number, as format!("{}", i) writes them.
RECURSIVE NumStr(_)
NumStr(i) ==
    IF i < 10 THEN <<48 + i>> ELSE NumStr(i \div 10) \o <<48 + (i % 10)>>

----------------------------------------------------------------------------
(* BLAKE3, as a small streaming digest: the hasher's state is one number,  *)
(* update folds the bytes in, finalize().to_hex() prints it.  It is not    *)
(* injective, as no digest is.                                             *)

HasherNew == 1

RECURSIVE hasher_update(_, _)
hasher_update(h, bytes) ==
    IF bytes = <<>> THEN h
    ELSE hasher_update((h * 3 + Head(bytes) + 1) % 7, Tail(bytes))

hasher_finalize_hex(h) == hex_encode(<<h>>)

\* The digest of a whole byte string.
Blake3Hex(bytes) == hasher_finalize_hex(hasher_update(HasherNew, bytes))


----------------------------------------------------------------------------
(* File header (protocol.rs).                                              *)

\* File names a header may carry: "a" and "a.t".
Names == {<<97>>, <<97, 46, 116>>}

\* File data is made of these bytes.
DataBytes == {0, 1}

RECURSIVE SeqsUpTo(_, _)
SeqsUpTo(S, n) ==
    IF n = 0 THEN {<<>>}
    ELSE LET shorter == SeqsUpTo(S, n - 1)
         IN  shorter \cup {Append(s, x) : s \in {t \in shorter : Len(t) = n - 1}, x \in S}

\* The contents a file may have.
Contents == SeqsUpTo(DataBytes, MaxFileLen)

\* Every digest string the hasher can print.
Digests == {hasher_finalize_hex(h) : h \in 0..6}

\* Names a header written by another program may carry: the absolute path
\* "/x" and "../x", which leaves its directory.
HostileNames == {<<47, 120>>, <<46, 46, 47, 120>>}

\* Every name serde_json reads out of a header: a JSON string is any text.
WireNames == Names \cup HostileNames

\* The FileHeader values of the model.
Headers == [name : WireNames, size : 0..(MaxFileLen + 1), blake3 : Digests]

NoHeader == [name |-> <<>>, size |-> 0, blake3 |-> <<>>]

\* serde_json::to_vec(self): {"name",size,"blake3"} with the field names left
\* out; one element holds the number.
Json(h) == <<123, 34>> \o h.name \o <<34, 44, h.size, 44, 34>> \o h.blake3 \o <<34, 125>>

\* FileHeader::to_wire: the JSON and a newline.
to_wire(h) == Json(h) \o <<10>>

\* FileHeader::from_wire: serde_json::from_str(line.trim()), the inverse of
\* the serializer on the headers of the model, an error on anything else.
from_wire(line) ==
    LET t == Trim(line)
        open(n) == <<123, 34>> \o n \o <<34, 44>>
        names == {n \in WireNames : Len(t) >= Len(open(n))
                                     /\ SubSeq(t, 1, Len(open(n))) = open(n)}
        hs == {h \in [name : names, size : 0..(MaxFileLen + 1), blake3 : Digests] :
                  Json(h) = t}
    IN  IF hs = {} THEN [ok |-> FALSE, header |-> NoHeader]
        ELSE [ok |-> TRUE, header |-> CHOOSE h \in hs : TRUE]

----------------------------------------------------------------------------
(* Paths and unique_path (receiver.rs).                                    *)

\* The receiver's output directory, "o".
OutputDir == <<111>>

\* PathBuf::join: an absolute name replaces the directory.
Join(dir, name) ==
    IF name # <<>> /\ Head(name) = 47 THEN name ELSE dir \o <<47>> \o name

\* Position of the last '.' of a name that starts an extension: none (0) when
\* the name has no dot or its only dot is the first character.
LastDot(name) ==
    LET dots == {i \in 2..Len(name) : name[i] = 46}
    IN  IF dots = {} THEN 0 ELSE CHOOSE i \in dots : \A j \in dots : j <= i

\* Path::file_stem and Path::extension (with its dot), of a one-component name.
file_stem(name) ==
    IF LastDot(name) = 0 THEN name ELSE SubSeq(name, 1, LastDot(name) - 1)

extension(name) ==
    IF LastDot(name) = 0 THEN <<>> ELSE SubSeq(name, LastDot(name), Len(name))

\* format!("{} ({}){}", stem, i, ext)
Numbered(name, i) ==
    file_stem(name) \o <<32, 40>> \o NumStr(i) \o <<41>> \o extension(name)

\* A loop that takes the numbered path whether or not it exists.
FirstNumbered(files, dir, name, i) == Join(dir, Numbered(name, i))

\* The loop of unique_path: the first i whose numbered path does not exist.
RECURSIVE FirstFree(_, _, _, _)
FirstFree(files, dir, name, i) ==
    IF Join(dir, Numbered(name, i)) \notin DOMAIN files
    THEN Join(dir, Numbered(name, i))
    ELSE FirstFree(files, dir, name, i + 1)

\* unique_path(dir, name) against the files that exist now.
unique_path(files, dir, name) ==
    IF Join(dir, name) \notin DOMAIN files
    THEN Join(dir, name)
    ELSE FirstFree(files, dir, name, 1)

\* format!("{}.part", header.name)
PartName(name) == name \o <<46, 112, 97, 114, 116>>

\* The file system of the receiving host: dir maps each existing path to its
\* inode, data holds every inode's bytes (an open handle names an inode, and
\* keeps writing to it after its path was renamed or removed).
EmptyFs == [dir |-> <<>>, data |-> <<>>]

Exists(f, p) == p \in DOMAIN f.dir

FileAt(f, p) == f.data[f.dir[p]]

\* A new file at path p holding bytes d (p does not exist).
FsAdd(f, p, d) ==
    [dir |-> [q \in DOMAIN f.dir \cup {p} |-> IF q = p THEN Len(f.data) + 1 ELSE f.dir[q]],
     data |-> Append(f.data, d)]

\* File::create: truncate the inode at p, or make a new empty one.
FsCreate(f, p) ==
    IF Exists(f, p) THEN [f EXCEPT !.data[f.dir[p]] = <<>>] ELSE FsAdd(f, p, <<>>)

\* The inode File::create(p) hands out.
CreatedInode(f, p) == IF Exists(f, p) THEN f.dir[p] ELSE Len(f.data) + 1

\* write_all of bytes at offset off of inode id (a gap reads as zeros).
FsWrite(f, id, off, bytes) ==
    LET old == f.data[id]
        n == IF Len(old) > off + Len(bytes) THEN Len(old) ELSE off + Len(bytes)
    IN  [f EXCEPT !.data[id] =
            [i \in 1..n |-> IF i > off /\ i <= off + Len(bytes) THEN bytes[i - off]
                            ELSE IF i <= Len(old) THEN old[i] ELSE 0]]

\* A rename that does nothing.
FsRenameNothing(f, a, b) == f
\* rename(a, b), a existing: b now names a's inode, replacing what b named.
FsRename(f, a, b) ==
    [f EXCEPT !.dir = [q \in (DOMAIN f.dir \ {a}) \cup {b} |->
                          IF q = b THEN f.dir[a] ELSE f.dir[q]]]

\* remove_file(a); a missing path is an error the caller ignores.
FsRemove(f, a) == [f EXCEPT !.dir = [q \in DOMAIN f.dir \ {a} |-> f.dir[q]]]

----------------------------------------------------------------------------
(* Noise NN and the encrypted framing (crypto.rs).                         *)

\* Ephemeral key pairs a peer may draw, and the ones only an attacker on the
\* path holds.
Ephemerals == {1, 2}
AttackerEphemerals == {3}
\* The one a foreign remote uses.
RemoteEphemerals == {2}

\* MixHash: the handshake hash absorbs one public value.
MixHash(h, x) == [j \in 1..4 |-> (h[j] * 7 + x * (j + 2) + 1) % 256]

\* The hash after the protocol name was absorbed.
InitialHash == <<78, 78, 50, 53>>

\* handshake.get_handshake_hash() after both messages: a function of the two
\* messages of the transcript, in order.
get_handshake_hash(m1, m2) == MixHash(MixHash(InitialHash, m1), m2)

\* The transport key: the Diffie-Hellman of the two ephemerals, the same for
\* both ends when each saw the other's real key.
TransportKey(ei, er) == ei * 4 + er

\* verification_code: hex of bytes 0..2, '-', hex of bytes 2..4.
verification_code(handshake_hash) ==
    hex_encode(SubSeq(handshake_hash, 1, 2)) \o <<45>> \o hex_encode(SubSeq(handshake_hash, 3, 4))

\* A frame on the wire: a handshake message carrying an ephemeral public key,
\* or a transport message: the plaintext masked under key and nonce (the AEAD
\* tag is the pair key, nonce).
HandshakeFrame(e) == [hs |-> TRUE, e |-> e, k |-> 0, n |-> 0, body |-> <<>>]

\* A transport that sends the plaintext as it is.
write_message_plain(k, n, plaintext) ==
    [hs |-> FALSE, e |-> 0, k |-> k, n |-> n, body |-> plaintext]
\* transport.write_message
write_message(k, n, plaintext) ==
    [hs |-> FALSE, e |-> 0, k |-> k, n |-> n,
     body |-> [i \in 1..Len(plaintext) |-> (plaintext[i] + k + n) % 256]]

\* transport.read_message: fails unless the tag verifies under the reader's
\* key and next nonce.
read_message(k, n, frame) ==
    IF frame.hs \/ frame.k # k \/ frame.n # n
    THEN [ok |-> FALSE, plaintext |-> <<>>]
    ELSE [ok |-> TRUE,
          plaintext |-> [i \in 1..Len(frame.body) |-> (frame.body[i] + 512 - k - n) % 256]]


----------------------------------------------------------------------------
(* Events (events.rs): what the driver hands to emit().                    *)

Ev(k, s, a, b, v, n) == [k |-> k, s |-> s, a |-> a, b |-> b, v |-> v, n |-> n]

Status(msg) == Ev("Status", msg, 0, 0, <<>>, <<>>)
HandshakeCode(code) == Ev("HandshakeCode", "", 0, 0, code, <<>>)
\* A Progress that reports the bytes still to go.
ProgressRemaining(done, total) == Ev("Progress", "", total - done, total, <<>>, <<>>)
Progress(done, total) == Ev("Progress", "", done, total, <<>>, <<>>)
\* Completed(TransferCompleted {file_name, size_bytes, saved_path}); no
\* saved_path is the empty path.
Completed(name, size, saved) == Ev("Completed", "", size, 0, saved, name)
\* ConnectionPath {kind, latency_ms}: the kind is left out.
ConnectionPath == Ev("ConnectionPath", "", 0, 0, <<>>, <<>>)

----------------------------------------------------------------------------
(* Tickets (ticket.rs): a node address as "p2psh:" and the base64url of    *)
(* its JSON.                                                               *)

\* TICKET_PREFIX, "p2psh".
TICKET_PREFIX == <<112, 50, 112, 115, 104>>

\* str::to_uppercase on the ASCII range.
to_uppercase(s) == [i \in 1..Len(s) |-> IF s[i] \in 97..122 THEN s[i] - 32 ELSE s[i]]

\* str::starts_with
starts_with(s, prefix) ==
    Len(s) >= Len(prefix) /\ SubSeq(s, 1, Len(prefix)) = prefix

\* str::strip_prefix
strip_prefix(s, prefix) ==
    IF starts_with(s, prefix)
    THEN [some |-> TRUE, rest |-> SubSeq(s, Len(prefix) + 1, Len(s))]
    ELSE [some |-> FALSE, rest |-> <<>>]

\* format!("{}:", prefix)
WithColon(prefix) == prefix \o <<58>>

\* Socket addresses: an IPv4 address is its four octets, an IPv6 address its
\* eight segments; every address of the model has port 9000.
V4(a, b, c, d) == [v |-> 4, ip |-> <<a, b, c, d>>, port |-> 9000]
V6(first, last) == [v |-> 6, ip |-> <<first, 0, 0, 0, 0, 0, 0, last>>, port |-> 9000]

\* The socket addresses of the model, in the order of SocketAddr's Ord:
\* 127.0.0.1, 169.254.1.1, 172.17.0.1, 172.17.0.2, 172.32.0.1,
\* ::1, fe80::1, febf::1, fec0::1.
SocketAddrs ==
    << V4(127, 0, 0, 1), V4(169, 254, 1, 1), V4(172, 17, 0, 1), V4(172, 17, 0, 2),
       V4(172, 32, 0, 1),
       V6(0, 1), V6(65152, 1), V6(65215, 1), V6(65216, 1) >>

SocketAddrSet == {SocketAddrs[i] : i \in 1..Len(SocketAddrs)}

\* A node has at most this many direct addresses.
MaxDirect == 2

\* Node ids "a" and "b"; the relay URL "r"; no relay URL is the empty text.
NodeIds == {<<97>>, <<98>>}
RelayUrls == {<<114>>}
NoRelay == <<>>

\* The NodeAddr values of the model.
NodeAddrs ==
    [node_id : NodeIds, relay_url : RelayUrls \cup {NoRelay},
     direct_addresses : {S \in SUBSET SocketAddrSet : Cardinality(S) <= MaxDirect}]

NoAddr == [node_id |-> <<>>, relay_url |-> NoRelay, direct_addresses |-> {}]

\* is_useful_address with every address kept.
is_useful_address_all(addr) == TRUE

\* is_useful_address; seg[0] & 0xffc0 clears the low six bits of the segment.
is_useful_address(addr) ==
    IF addr.v = 4
    THEN LET o == addr.ip
         IN  IF o[1] = 127 THEN FALSE
             ELSE IF o[1] = 169 /\ o[2] = 254 THEN FALSE
             ELSE IF o[1] = 172 /\ o[2] \in 16..31 /\ o[3] = 0 /\ o[4] = 1 THEN FALSE
             ELSE TRUE
    ELSE LET seg == addr.ip
         IN  IF seg = <<0, 0, 0, 0, 0, 0, 0, 1>> THEN FALSE
             ELSE IF (seg[1] \div 64) * 64 = 65152 THEN FALSE
             ELSE TRUE

\* filter_node_addr
filter_node_addr(addr) ==
    [node_id |-> addr.node_id, relay_url |-> addr.relay_url,
     direct_addresses |-> {sa \in addr.direct_addresses : is_useful_address(sa)}]

\* Lower-case hex digits of a natural number, as format!("{:x}", n).
RECURSIVE HexStr(_)
HexStr(n) ==
    IF n < 16 THEN <<HexDigit(n)>> ELSE HexStr(n \div 16) \o <<HexDigit(n % 16)>>

\* The texts of a list, with a separator between them.
RECURSIVE JoinText(_, _)
JoinText(texts, sep) ==
    IF texts = <<>> THEN <<>>
    ELSE IF Len(texts) = 1 THEN texts[1]
    ELSE texts[1] \o <<sep>> \o JoinText(Tail(texts), sep)

\* SocketAddr's Display: a.b.c.d:port, or [segments]:port with the segments
\* in hex and no run of zeros shortened.
SocketAddrText(sa) ==
    IF sa.v = 4
    THEN JoinText([i \in 1..4 |-> NumStr(sa.ip[i])], 46) \o <<58>> \o NumStr(sa.port)
    ELSE <<91>> \o JoinText([i \in 1..8 |-> HexStr(sa.ip[i])], 58) \o <<93, 58>>
         \o NumStr(sa.port)

\* A set of socket addresses as BTreeSet iterates it.
InOrder(S) == SelectSeq(SocketAddrs, LAMBDA sa : sa \in S)

\* Quoted(t): "t"
Quoted(t) == <<34>> \o t \o <<34>>

\* serde_json::to_vec of a NodeAddr: {"node_id",relay_url,[direct_addresses]}
\* with the field names left out; no relay URL is null.
AddrJson(addr) ==
    LET list == InOrder(addr.direct_addresses)
    IN  <<123>> \o Quoted(addr.node_id) \o <<44>>
        \o (IF addr.relay_url = NoRelay THEN <<110, 117, 108, 108>> ELSE Quoted(addr.relay_url))
        \o <<44, 91>>
        \o JoinText([i \in 1..Len(list) |-> Quoted(SocketAddrText(list[i]))], 44)
        \o <<93, 125>>

\* serde_json::from_slice: the inverse of the serializer on the node
\* addresses of the model, an error on anything else.
from_slice(bytes) ==
    LET as == {a \in NodeAddrs : AddrJson(a) = bytes}
    IN  IF as = {} THEN [ok |-> FALSE, addr |-> NoAddr]
        ELSE [ok |-> TRUE, addr |-> CHOOSE a \in as : TRUE]

\* The base64url alphabet: A-Z a-z 0-9 - _
B64Char(n) ==
    IF n < 26 THEN 65 + n
    ELSE IF n < 52 THEN 71 + n
    ELSE IF n < 62 THEN n - 4
    ELSE IF n = 62 THEN 45 ELSE 95

\* The value of a symbol of the alphabet; 64 for any other character.
B64Val(c) ==
    IF c \in 65..90 THEN c - 65
    ELSE IF c \in 97..122 THEN c - 71
    ELSE IF c \in 48..57 THEN c + 4
    ELSE IF c = 45 THEN 62
    ELSE IF c = 95 THEN 63 ELSE 64

\* BASE64URL_NOPAD.encode: three bytes to four symbols, a rest of one or two
\* bytes to two or three.
RECURSIVE base64url_encode(_)
base64url_encode(b) ==
    IF b = <<>> THEN <<>>
    ELSE IF Len(b) = 1
    THEN <<B64Char(b[1] \div 4), B64Char((b[1] % 4) * 16)>>
    ELSE IF Len(b) = 2
    THEN <<B64Char(b[1] \div 4), B64Char((b[1] % 4) * 16 + b[2] \div 16),
           B64Char((b[2] % 16) * 4)>>
    ELSE <<B64Char(b[1] \div 4), B64Char((b[1] % 4) * 16 + b[2] \div 16),
           B64Char((b[2] % 16) * 4 + b[3] \div 64), B64Char(b[3] % 64)>>
         \o base64url_encode(SubSeq(b, 4, Len(b)))

\* The bytes of well-formed base64url text.
RECURSIVE Base64Bytes(_)
Base64Bytes(s) ==
    IF Len(s) < 2 THEN <<>>
    ELSE LET v == [i \in 1..Len(s) |-> B64Val(s[i])]
         IN  IF Len(s) = 2 THEN <<v[1] * 4 + v[2] \div 16>>
             ELSE IF Len(s) = 3
             THEN <<v[1] * 4 + v[2] \div 16, (v[2] % 16) * 16 + v[3] \div 4>>
             ELSE <<v[1] * 4 + v[2] \div 16, (v[2] % 16) * 16 + v[3] \div 4,
                    (v[3] % 4) * 64 + v[4]>>
                  \o Base64Bytes(SubSeq(s, 5, Len(s)))

\* BASE64URL_NOPAD.decode: an error on a character outside the alphabet, on
\* a length no encoding has, and on non-zero trailing bits.
base64url_decode(s) ==
    LET n == Len(s)
        bad == \/ \E i \in 1..n : B64Val(s[i]) = 64
               \/ n % 4 = 1
               \/ n % 4 = 2 /\ B64Val(s[n]) % 16 # 0
               \/ n % 4 = 3 /\ B64Val(s[n]) % 4 # 0
    IN  IF bad THEN [ok |-> FALSE, bytes |-> <<>>]
        ELSE [ok |-> TRUE, bytes |-> Base64Bytes(s)]

\* serialize
serialize(addr) ==
    LET filtered == filter_node_addr(addr)
        json == AddrJson(filtered)
        encoded == base64url_encode(json)
    IN  WithColon(TICKET_PREFIX) \o encoded

\* The outcome of deserialize: Ok(addr), or Err with the step that failed.
Parsed(addr) == [done |-> TRUE, ok |-> TRUE, addr |-> addr, why |-> ""]
Rejected(why) == [done |-> TRUE, ok |-> FALSE, addr |-> NoAddr, why |-> why]
NotParsed == [done |-> FALSE, ok |-> FALSE, addr |-> NoAddr, why |-> ""]

\* deserialize
deserialize(ticket) ==
    LET data == strip_prefix(ticket, WithColon(TICKET_PREFIX))
        bytes == base64url_decode(data.rest)
        addr == from_slice(bytes.bytes)
    IN  IF ~data.some THEN Rejected("prefix")
        ELSE IF ~bytes.ok THEN Rejected("base64")
        ELSE IF ~addr.ok THEN Rejected("json")
        ELSE IF addr.addr.direct_addresses = {} /\ addr.addr.relay_url = NoRelay
        THEN Rejected("empty")
        ELSE Parsed(addr.addr)

\* is_ticket
is_ticket(s) ==
    LET t == Trim(s)
    IN  \/ starts_with(t, WithColon(TICKET_PREFIX))
        \/ starts_with(t, WithColon(to_uppercase(TICKET_PREFIX)))

\* The ticket record of a run: the node address a listener has, the ticket
\* it shows, what the other side's user gives as the target and how that
\* derives from the ticket, and what is_ticket and deserialize make of it.
NoTk == [addr |-> NoAddr, ticket |-> <<>>, how |-> "none", target |-> <<>>,
         is |-> "none", out |-> NotParsed]

----------------------------------------------------------------------------
(* Framing (crypto.rs): a frame is a 4-byte big-endian length and the data. *)

\* NOISE_MAX_MSG
NOISE_MAX_MSG == 65535

\* The length with its low byte first.
to_le_bytes(n) ==
    <<n % 256, (n \div 256) % 256, (n \div 65536) % 256, (n \div 16777216) % 256>>

\* (n as u32).to_be_bytes(), for the lengths of the model, all below 2^31.
to_be_bytes(n) ==
    <<(n \div 16777216) % 256, (n \div 65536) % 256, (n \div 256) % 256, n % 256>>

\* u32::from_be_bytes
from_be_bytes(b) == b[1] * 16777216 + b[2] * 65536 + b[3] * 256 + b[4]

\* len > NOISE_MAX_MSG
over_limit(len) == len > NOISE_MAX_MSG

\* send_frame on a stream that takes every write: the bytes it appends, none
\* when the data is too long.
send_frame(data) ==
    IF over_limit(Len(data)) THEN [ok |-> FALSE, bytes |-> <<>>]
    ELSE [ok |-> TRUE, bytes |-> to_be_bytes(Len(data)) \o data]

\* recv_frame on the unread rest of a stream that has ended: the frame, and
\* how many bytes were taken from the stream.
recv_frame(rest) ==
    IF Len(rest) < 4 THEN [ok |-> FALSE, why |-> "eof", buf |-> <<>>, read |-> Len(rest)]
    ELSE LET len == from_be_bytes(SubSeq(rest, 1, 4))
         IN  IF over_limit(len)
             THEN [ok |-> FALSE, why |-> "frame too large", buf |-> <<>>, read |-> 4]
             ELSE IF Len(rest) < 4 + len
             THEN [ok |-> FALSE, why |-> "eof", buf |-> <<>>, read |-> Len(rest)]
             ELSE [ok |-> TRUE, why |-> "", buf |-> SubSeq(rest, 5, 4 + len),
                   read |-> 4 + len]

\* The stream of a run: its bytes, how many of them were read, what each
\* send_frame was given and returned, what each recv_frame returned.
\* For an encrypted channel also the key of its transport and the nonces of
\* the writer and of the reader.
NoFr == [stream |-> <<>>, pos |-> 0, sent |-> <<>>, got |-> <<>>,
         k |-> 0, ns |-> 0, nr |-> 0]

----------------------------------------------------------------------------
(* A sender's endpoint.                                                    *)

\* NodeAddr::from_parts(node_id, relay_url, Vec::new())
relay_only(addr) ==
    [node_id |-> addr.node_id, relay_url |-> addr.relay_url, direct_addresses |-> {}]

\* A reverse sender that dials the relay-only address whatever its sink and
\* its ticket.
relay_first_always(sink, addr) == TRUE
\* run_reverse_with_sink and connect_reverse_relay_first: the relay-only
\* address is dialled first when a sink is attached and the ticket has a
\* relay URL.
relay_first(sink, addr) == sink /\ addr.relay_url # NoRelay

\* A listening sender that advertises its address as it is.
advertised_addr_full(sink, node_addr) == node_addr
\* run_with_sink: the address a listening sender advertises.
advertised_addr(sink, node_addr) ==
    IF sink /\ node_addr.relay_url # NoRelay THEN relay_only(node_addr) ELSE node_addr

\* The endpoint before anything was done: sink tells whether an event sink
\* is attached; addr is the address of the ticket given to a reverse sender,
\* or the endpoint's own of a listening sender; tried lists the addresses
\* dialled and how each dial ended; ticket is the ticket string published
\* and events the events the sink got.
NoEp == [mode |-> "none", sink |-> FALSE, addr |-> NoAddr, pc |-> "none",
         tried |-> <<>>, why |-> "", ticket |-> <<>>, events |-> <<>>,
         relay |-> "none"]

----------------------------------------------------------------------------
(* The session: a listener L and a dialer D, each running one of the four  *)
(* flows, or one of them against a remote that is not this program.        *)

Peers == {"L", "D"}
Other(p) == IF p = "L" THEN "D" ELSE "L"

\* ALPN and ALPN_REVERSE.
ALPN == "p2p-share/1"
ALPN_REVERSE == "p2p-share/1-reverse"

ListenFlows == {"send_listen", "receive_listen"}
DialFlows == {"send_to_ticket", "receive_from_ticket"}

\* FlowOps with the listening receiver running the initiator's half.
FlowOpsListenerInitiates(f) ==
    IF f = "receive_listen"
    THEN [conn |-> "accept", stream |-> "accept_bi", role |-> "initiator",
          transfer |-> "receive_file", alpns |-> {"p2p-share/1", "p2p-share/1-reverse"}]
    ELSE IF f = "send_listen"
    THEN [conn |-> "accept", stream |-> "accept_bi", role |-> "responder",
          transfer |-> "send_file", alpns |-> {"p2p-share/1"}]
    ELSE [conn |-> "connect", stream |-> "open_bi", role |-> "initiator",
          transfer |-> IF f = "send_to_ticket" THEN "send_file" ELSE "receive_file",
          alpns |-> IF f = "send_to_ticket" THEN {"p2p-share/1-reverse"} ELSE {"p2p-share/1"}]

\* What each flow's driver does once it has an endpoint: how it gets its
\* connection and its stream, the Noise role it runs, the transfer it runs,
\* the protocol tag it dials with or the tags its endpoint advertises.
FlowOps(f) ==
    CASE f = "send_listen" ->
           [conn |-> "accept", stream |-> "accept_bi", role |-> "responder",
            transfer |-> "send_file", alpns |-> {ALPN}]
      [] f = "send_to_ticket" ->
           [conn |-> "connect", stream |-> "open_bi", role |-> "initiator",
            transfer |-> "send_file", alpns |-> {ALPN_REVERSE}]
      [] f = "receive_from_ticket" ->
           [conn |-> "connect", stream |-> "open_bi", role |-> "initiator",
            transfer |-> "receive_file", alpns |-> {ALPN}]
      [] f = "receive_listen" ->
           [conn |-> "accept", stream |-> "accept_bi", role |-> "responder",
            transfer |-> "receive_file", alpns |-> {ALPN, ALPN_REVERSE}]

VARIABLES
    linked,     \* TRUE: L and D talk to each other; FALSE: to a foreign remote
    flow,       \* the flow each peer runs ("remote": not this program)
    pc,         \* where each driver is
    conn,       \* each peer's connection: whether it is up, and its protocol tag
    setup,      \* what each driver did to get its connection, stream and role
    noise,      \* each peer's handshake and transport state
    wire,       \* frames in flight to each peer
    wopen,      \* whether the stream to each peer may still grow
    tampered,   \* whether a handshake frame was altered in flight
    src,        \* the sender's local file
    hdr,        \* the header each peer holds (prepared or received)
    fs,         \* the receiving host's file system
    fs0,        \* ... as it was before the session
    rcv,        \* receive_file's locals
    snd,        \* send_file's locals
    ev,         \* events each driver emitted, in order
    err,        \* why a driver failed
    feeds,      \* frames each peer's foreign remote has fed
    ctl,        \* the host of the session: a TransferController or the CLI's run_json
    tk,         \* the ticket of the run, and what is made of it
    fr,         \* a byte stream, the frames written to it and read from it
    ep          \* a sender's endpoint: its address or its target's, its dials, its ticket

vars == <<linked, flow, pc, conn, setup, noise, wire, wopen, tampered, src, hdr,
          fs, fs0, rcv, snd, ev, err, feeds, ctl, tk, fr, ep>>

Local(p) == flow[p] # "remote"
Ops(p) == FlowOps(flow[p])
Uploader(p) == Local(p) /\ Ops(p).transfer = "send_file"
Downloader(p) == Local(p) /\ Ops(p).transfer = "receive_file"

NoConn == [up |-> FALSE, alpn |-> "", dialed |-> FALSE]
NoSetup == [conn |-> "none", stream |-> "none", role |-> "none"]
NoNoise == [e |-> 0, re |-> 0, h |-> <<>>, k |-> 0, ns |-> 0, nr |-> 0, done |-> FALSE]
NoRcv == [dest |-> <<>>, temp |-> <<>>, file |-> 0, received |-> 0,
          hasher |-> HasherNew, frames |-> <<>>, verified |-> FALSE, created |-> FALSE,
          last |-> "none"]
NoSnd == [sent |-> 0, pos |-> 0, tail |-> "none", text |-> <<>>,
          acked |-> FALSE, ack |-> <<>>, opened |-> FALSE, finished |-> FALSE]
NoFile == [name |-> <<>>, data |-> <<>>]

\* Files that may already be in the output directory: a.t, a.t.part, a (1).t.
OldData == <<9>>
OldPaths == <<Join(OutputDir, <<97, 46, 116>>),
              Join(OutputDir, PartName(<<97, 46, 116>>)),
              Join(OutputDir, Numbered(<<97, 46, 116>>, 1))>>

\* Which of them are there: none, the name, the name and its temp name, all.
OldMasks == {{}, {1}, {1, 2}, {1, 2, 3}}

\* The file system holding the old paths numbered in mask, up to the i-th.
RECURSIVE FsFrom(_, _)
FsFrom(mask, i) ==
    IF i = 0 THEN EmptyFs
    ELSE IF i \in mask THEN FsAdd(FsFrom(mask, i - 1), OldPaths[i], OldData)
         ELSE FsFrom(mask, i - 1)

\* The sessions a host may run, one after the other.
Sessions == 1..MaxSessions

\* A session of the host: its driver task, whether handle.abort() was called
\* on it, its path watcher task.
NoSession == [st |-> "none", abort |-> FALSE, w |-> "none"]

\* TransferController::new: an empty queue and no task.  log is the history
\* of the queue: every event record pushed, with the session that owns it.
\* got is the history of poll_event: the records it returned; last tells what
\* the latest call returned and whether it found the queue empty.
NoCtl == [host |-> "none", task |-> 0, started |-> 0, queue |-> <<>>, log |-> <<>>,
          got |-> <<>>, last |-> "none", lastEmpty |-> FALSE, exit |-> -1,
          sess |-> [s \in Sessions |-> NoSession]]


InitCommon ==
    /\ pc = [p \in Peers |-> IF Local(p) THEN "start" ELSE "remote"]
    /\ conn = [p \in Peers |-> NoConn]
    /\ setup = [p \in Peers |-> NoSetup]
    /\ noise = [p \in Peers |-> NoNoise]
    /\ wire = [p \in Peers |-> <<>>]
    /\ wopen = [p \in Peers |-> TRUE]
    /\ tampered = FALSE
    /\ hdr = [p \in Peers |-> NoHeader]
    /\ rcv = [p \in Peers |-> NoRcv]
    /\ snd = [p \in Peers |-> NoSnd]
    /\ ev = [p \in Peers |-> <<>>]
    /\ err = [p \in Peers |-> ""]
    /\ feeds = [p \in Peers |-> 0]
    /\ IF \E p \in Peers : Uploader(p)
       THEN src \in [name : Names, data : Contents]
       ELSE src = NoFile
    /\ IF \E p \in Peers : Downloader(p)
       THEN \E mask \in OldMasks : fs = FsFrom(mask, Len(OldPaths))
       ELSE fs = EmptyFs
    /\ fs0 = fs

Init ==
    /\ linked \in BOOLEAN
    /\ flow \in [Peers -> ListenFlows \cup DialFlows \cup {"remote"}]
    /\ flow["L"] \in ListenFlows \cup {"remote"}
    /\ flow["D"] \in DialFlows \cup {"remote"}
    /\ linked => \A p \in Peers : Local(p)
    /\ ~linked => Cardinality({p \in Peers : Local(p)}) = 1
    /\ InitCommon
    /\ ctl = NoCtl
    /\ tk = NoTk
    /\ fr = NoFr
    /\ ep = NoEp


----------------------------------------------------------------------------
(* Steps shared by the actions.                                            *)

Goto(p, l) == pc' = [pc EXCEPT ![p] = l]

Emit(p, events) == ev' = [ev EXCEPT ![p] = @ \o events]

\* The peers at the ends of p's connection that are this program.
Ends(p) == IF linked THEN Peers ELSE {p}

\* p's connection becomes c, for every end of it.
SetConn(p, c) == conn' = [q \in Peers |-> IF q \in Ends(p) THEN c ELSE conn[q]]

\* The driver returns: its streams, connection and endpoint are dropped.
DropConnection(p) ==
    /\ SetConn(p, [conn[p] EXCEPT !.up = FALSE])
    /\ wopen' = IF linked THEN [wopen EXCEPT ![Other(p)] = FALSE] ELSE wopen

\* The driver returns Err(why).
Fails(p, why) ==
    /\ Goto(p, "err")
    /\ err' = [err EXCEPT ![p] = why]
    /\ DropConnection(p)

\* send_frame succeeds: the frame is on its way to the other peer (a foreign
\* remote consumes it).
Sent(p, frame) ==
    /\ conn[p].up
    /\ wire' = IF linked THEN [wire EXCEPT ![Other(p)] = Append(@, frame)] ELSE wire

\* recv_frame: a frame is there / the stream ended before one came.
CanRecv(p) == wire[p] # <<>>
RecvEof(p) == wire[p] = <<>> /\ ~wopen[p]
Recvd(p) == wire' = [wire EXCEPT ![p] = Tail(@)]

\* encrypted_write: the frame for a plaintext, and the transport after it.
Encrypted(p, plaintext) == write_message(noise[p].k, noise[p].ns, plaintext)
WroteMessage(p) == [noise EXCEPT ![p].ns = @ + 1]

\* encrypted_read of the frame at the head of the wire.
Decrypted(p) == read_message(noise[p].k, noise[p].nr, Head(wire[p]))
ReadMessage(p) == [noise EXCEPT ![p].nr = @ + 1]

\* print_conn_summary emits a ConnectionPath when the endpoint has remote info.
ConnSummaries == {<<>>, <<ConnectionPath>>}

----------------------------------------------------------------------------
(* Before the connection.                                                  *)

\* prepare_file: name, size and digest of the local file as it is now.
prepare_file(file) ==
    [name |-> file.name, size |-> Len(file.data), blake3 |-> Blake3Hex(file.data)]

\* The driver up to the point where it accepts or dials: a sender prepares
\* its file (or cannot read it).
\* The ticket of the session's listener: that of a node with a relay URL.
SessionTicket ==
    serialize([node_id |-> <<97>>, relay_url |-> <<114>>, direct_addresses |-> {}])

\* emit(Ticket(ticket_str)); emit(QrPayload(ticket_str)): a listener
\* publishes its ticket before it waits for its peer.
Published(p) ==
    IF Ops(p).conn = "accept"
    THEN <<Ev("Ticket", "", 0, 0, SessionTicket, <<>>),
           Ev("QrPayload", "", 0, 0, SessionTicket, <<>>)>>
    ELSE <<>>

Prepare(p) ==
    /\ pc[p] = "start"
    /\ \/ /\ Goto(p, "connect")
          /\ hdr' = [hdr EXCEPT ![p] = IF Uploader(p) THEN prepare_file(src) ELSE @]
          /\ Emit(p, (IF Uploader(p) THEN <<Status("Hashing file...")>> ELSE <<>>)
                        \o Published(p))
          /\ UNCHANGED <<err, conn, wopen>>
       \/ /\ Uploader(p)
          /\ Fails(p, "cannot access file")
          /\ UNCHANGED <<hdr, ev>>
    /\ UNCHANGED <<ep, fr, tk, ctl, linked, flow, setup, noise, wire, tampered, src, fs, fs0, rcv, snd, feeds>>

\* ep.connect(addr, alpn): the dialer's side of the connection.  The
\* listener must be accepting; the protocol tag must be one it advertises.
Dial(p) ==
    /\ pc[p] = "connect" /\ Ops(p).conn = "connect"
    /\ \E tag \in Ops(p).alpns :
        \/ /\ IF linked
              THEN pc[Other(p)] = "connect" /\ tag \in Ops(Other(p)).alpns
              ELSE TRUE
           /\ SetConn(p, [up |-> TRUE, alpn |-> tag, dialed |-> TRUE])
           /\ setup' = [setup EXCEPT ![p].conn = "connect"]
           /\ Goto(p, "stream")
           /\ Emit(p, <<Status("Connected.")>>)
           /\ UNCHANGED <<err, wopen>>
        \/ /\ Goto(p, "err")
           /\ err' = [err EXCEPT ![p] = "failed to connect"]
           \* a dial the listener refuses for its tag still reaches the listener
           /\ SetConn(p, [up |-> FALSE, alpn |-> "",
                          dialed |-> linked /\ pc[Other(p)] = "connect"
                                     /\ tag \notin Ops(Other(p)).alpns])
           /\ UNCHANGED <<setup, ev, wopen>>
    /\ UNCHANGED <<ep, fr, tk, ctl, linked, flow, noise, wire, tampered, src, hdr, fs, fs0, rcv, snd, feeds>>

\* ep.accept() and incoming.accept(): the listener's side.
Accept(p) ==
    /\ pc[p] = "connect" /\ Ops(p).conn = "accept"
    /\ \/ /\ IF linked THEN conn[p].dialed /\ conn[p].up ELSE ~conn[p].dialed
          /\ \E tag \in Ops(p).alpns :
                SetConn(p, IF linked THEN conn[p]
                           ELSE [up |-> TRUE, dialed |-> TRUE, alpn |-> tag])
          /\ setup' = [setup EXCEPT ![p].conn = "accept"]
          /\ Goto(p, "stream")
          /\ Emit(p, <<Status("Peer connected.")>>)
          /\ UNCHANGED <<err, wopen>>
       \/ /\ IF linked THEN conn[p].dialed /\ ~conn[p].up ELSE ~conn[p].dialed
          /\ Fails(p, "connection failed")
          /\ UNCHANGED <<setup, ev>>
    /\ UNCHANGED <<ep, fr, tk, ctl, linked, flow, noise, wire, tampered, src, hdr, fs, fs0, rcv, snd, feeds>>

\* conn.open_bi() or conn.accept_bi().
OpenStream(p) ==
    /\ pc[p] = "stream"
    /\ \/ /\ conn[p].up
          /\ setup' = [setup EXCEPT ![p].stream = Ops(p).stream]
          /\ Goto(p, "handshake")
          /\ UNCHANGED <<err, conn, wopen>>
       \/ /\ ~conn[p].up
          /\ Fails(p, "failed to open stream")
          /\ UNCHANGED setup
    /\ UNCHANGED <<ep, fr, tk, ctl, linked, flow, noise, wire, tampered, src, hdr, fs, fs0, rcv, snd, ev, feeds>>


----------------------------------------------------------------------------
(* The Noise NN handshake (crypto.rs).                                     *)

\* The handshake hash each role reads once it has processed both messages:
\* m1 is the initiator's message, m2 the responder's.
initiator_hash(m1, m2) == get_handshake_hash(m1, m2)
\* The responder reading the hash before it has written its reply.
responder_hash_before_reply(m1, m2) == MixHash(InitialHash, m1)
responder_hash(m1, m2) == get_handshake_hash(m1, m2)

\* The key pairs a driver may draw (one, against a foreign remote).
Draws == IF linked THEN Ephemerals ELSE {1}

\* What a driver emits when its handshake returns.
\* A handshake that ends without telling the verification code.
EstablishedSilent(code) == <<Status("Encryption established.")>>
Established(code) ==
    <<Status("Encryption established."), HandshakeCode(code)>>

\* A receiver that acknowledges before it has read a header.
TransferStartsWithAck(p) == IF Ops(p).transfer = "send_file" THEN "sf_header" ELSE "rf_ack"

\* The pc at which a driver's transfer starts.
TransferStart(p) == IF Ops(p).transfer = "send_file" THEN "sf_header" ELSE "rf_header"

\* handshake_initiator, first half: -> e
InitiatorSend(p) ==
    /\ pc[p] = "handshake" /\ Ops(p).role = "initiator"
    /\ \/ \E e \in Draws :
            /\ Sent(p, HandshakeFrame(e))
            /\ noise' = [noise EXCEPT ![p].e = e]
            /\ setup' = [setup EXCEPT ![p].role = "initiator"]
            /\ Goto(p, "handshake_reply")
            /\ UNCHANGED <<err, conn, wopen>>
       \/ /\ ~conn[p].up
          /\ Fails(p, "handshake write failed")
          /\ UNCHANGED <<noise, setup, wire>>
    /\ UNCHANGED <<ep, fr, tk, ctl, linked, flow, tampered, src, hdr, fs, fs0, rcv, snd, ev, feeds>>

\* handshake_initiator, second half: <- e, ee
InitiatorRecv(p) ==
    /\ pc[p] = "handshake_reply" /\ Ops(p).role = "initiator"
    /\ \/ /\ CanRecv(p) /\ Head(wire[p]).hs
          /\ Recvd(p)
          /\ LET re == Head(wire[p]).e
                 h == initiator_hash(noise[p].e, re)
             IN  /\ noise' = [noise EXCEPT ![p] =
                        [@ EXCEPT !.re = re, !.h = h, !.done = TRUE,
                                  !.k = TransportKey(noise[p].e, re)]]
                 /\ Emit(p, Established(verification_code(h)))
          /\ Goto(p, TransferStart(p))
          /\ UNCHANGED <<err, conn, wopen>>
       \/ /\ CanRecv(p) /\ ~Head(wire[p]).hs
          /\ Recvd(p)
          /\ Fails(p, "handshake failed")
          /\ UNCHANGED <<noise, ev>>
       \/ /\ RecvEof(p)
          /\ Fails(p, "handshake read failed")
          /\ UNCHANGED <<noise, ev, wire>>
    /\ UNCHANGED <<ep, fr, tk, ctl, linked, flow, setup, tampered, src, hdr, fs, fs0, rcv, snd, feeds>>

\* handshake_responder, first half: -> e
ResponderRecv(p) ==
    /\ pc[p] = "handshake" /\ Ops(p).role = "responder"
    /\ \/ /\ CanRecv(p) /\ Head(wire[p]).hs
          /\ Recvd(p)
          /\ noise' = [noise EXCEPT ![p].re = Head(wire[p]).e]
          /\ setup' = [setup EXCEPT ![p].role = "responder"]
          /\ Goto(p, "handshake_reply")
          /\ UNCHANGED <<err, conn, wopen>>
       \/ /\ CanRecv(p) /\ ~Head(wire[p]).hs
          /\ Recvd(p)
          /\ Fails(p, "handshake failed")
          /\ UNCHANGED <<noise, setup>>
       \/ /\ RecvEof(p)
          /\ Fails(p, "handshake read failed")
          /\ UNCHANGED <<noise, setup, wire>>
    /\ UNCHANGED <<ep, fr, tk, ctl, linked, flow, tampered, src, hdr, fs, fs0, rcv, snd, ev, feeds>>

\* handshake_responder, second half: <- e, ee
ResponderSend(p) ==
    /\ pc[p] = "handshake_reply" /\ Ops(p).role = "responder"
    /\ \/ \E e \in Draws :
            /\ Sent(p, HandshakeFrame(e))
            /\ LET h == responder_hash(noise[p].re, e)
               IN  /\ noise' = [noise EXCEPT ![p] =
                          [@ EXCEPT !.e = e, !.h = h, !.done = TRUE,
                                    !.k = TransportKey(noise[p].re, e)]]
                   /\ Emit(p, Established(verification_code(h)))
            /\ Goto(p, TransferStart(p))
            /\ UNCHANGED <<err, conn, wopen>>
       \/ /\ ~conn[p].up
          /\ Fails(p, "handshake write failed")
          /\ UNCHANGED <<noise, ev, wire>>
    /\ UNCHANGED <<ep, fr, tk, ctl, linked, flow, setup, tampered, src, hdr, fs, fs0, rcv, snd, feeds>>

----------------------------------------------------------------------------
(* send_file, finish and wait_for_done (sender.rs).                        *)

Min(a, b) == IF a < b THEN a ELSE b

\* encrypted_write of the header.
SendHeader(p) ==
    /\ pc[p] = "sf_header"
    /\ \/ /\ Sent(p, Encrypted(p, to_wire(hdr[p])))
          /\ noise' = WroteMessage(p)
          /\ Goto(p, "sf_ack")
          /\ UNCHANGED <<err, conn, wopen>>
       \/ /\ ~conn[p].up
          /\ Fails(p, "write failed")
          /\ UNCHANGED <<noise, wire>>
    /\ UNCHANGED <<ep, fr, tk, ctl, linked, flow, setup, tampered, src, hdr, fs, fs0, rcv, snd, ev, feeds>>

\* A sender that takes any acknowledgement.
AckIsAnything(plaintext) == TRUE
\* The acknowledgement is accepted: its trimmed text is OK.
AckIsOk(plaintext) == Trim(plaintext) = <<79, 75>>

\* encrypted_read of the acknowledgement.
ReadAck(p) ==
    /\ pc[p] = "sf_ack"
    /\ \/ /\ CanRecv(p)
          /\ Recvd(p)
          /\ IF Decrypted(p).ok /\ AckIsOk(Decrypted(p).plaintext)
             THEN /\ noise' = ReadMessage(p)
                  /\ snd' = [snd EXCEPT ![p].acked = TRUE, ![p].ack = Decrypted(p).plaintext]
                  /\ Emit(p, <<Status("Receiver accepted. Sending file...")>>)
                  /\ Goto(p, "sf_open")
                  /\ UNCHANGED <<err, conn, wopen>>
             ELSE /\ Fails(p, IF Decrypted(p).ok THEN "receiver_rejected" ELSE "decrypt failed")
                  /\ snd' = [snd EXCEPT ![p].acked = Decrypted(p).ok,
                                        ![p].ack = Decrypted(p).plaintext]
                  /\ UNCHANGED <<noise, ev>>
       \/ /\ RecvEof(p)
          /\ Fails(p, "read failed")
          /\ UNCHANGED <<noise, snd, ev, wire>>
    /\ UNCHANGED <<ep, fr, tk, ctl, linked, flow, setup, tampered, src, hdr, fs, fs0, rcv, feeds>>

\* File::open(file_path)
OpenFile(p) ==
    /\ pc[p] = "sf_open"
    /\ \/ /\ Goto(p, "sf_loop")
          /\ snd' = [snd EXCEPT ![p].sent = 0, ![p].pos = 0, ![p].opened = TRUE]
          /\ UNCHANGED <<err, conn, wopen>>
       \/ /\ Fails(p, "cannot open file")
          /\ UNCHANGED snd
    /\ UNCHANGED <<ep, fr, tk, ctl, linked, flow, setup, noise, wire, tampered, src, hdr, fs, fs0, rcv, ev, feeds>>

\* One turn of the send loop: file.read fills up to ChunkSize bytes (a read
\* may return fewer), the chunk goes out as one frame, Progress is emitted.
SendChunk(p) ==
    /\ pc[p] = "sf_loop"
    /\ snd[p].pos < Len(src.data)
    /\ \/ \E n \in 1..Min(ChunkSize, Len(src.data) - snd[p].pos) :
            /\ Sent(p, Encrypted(p, SubSeq(src.data, snd[p].pos + 1, snd[p].pos + n)))
            /\ noise' = WroteMessage(p)
            /\ snd' = [snd EXCEPT ![p].sent = @ + n, ![p].pos = @ + n]
            /\ Emit(p, <<Progress(snd[p].sent + n, hdr[p].size)>>)
            /\ UNCHANGED <<pc, err, conn, wopen>>
       \/ /\ ~conn[p].up
          /\ Fails(p, "write failed")
          /\ UNCHANGED <<noise, snd, ev, wire>>
    /\ UNCHANGED <<ep, fr, tk, ctl, linked, flow, setup, tampered, src, hdr, fs, fs0, rcv, feeds>>

\* A sender that never compares what it streamed with what it declared.
SizeDriftedNever(p) == FALSE
\* sent != file_size
SizeDrifted(p) == snd[p].sent # hdr[p].size

\* The text of the error send_file returns on a size drift.
LocalFileChanged == "local file changed during transfer"

\* The read returns 0 (the position is at or past the end of the file): the
\* loop ends and the size is checked.
SendEnd(p) ==
    /\ pc[p] = "sf_loop"
    /\ snd[p].pos >= Len(src.data)
    /\ IF SizeDrifted(p)
       THEN Fails(p, LocalFileChanged)
       ELSE Goto(p, "sf_finish") /\ UNCHANGED <<err, conn, wopen>>
    /\ UNCHANGED <<ep, fr, tk, ctl, linked, flow, setup, noise, wire, tampered, src, hdr, fs, fs0, rcv, snd, ev, feeds>>

\* send_stream.finish()
Finish(p) ==
    /\ pc[p] = "sf_finish"
    /\ \/ /\ conn[p].up
          /\ wopen' = IF linked THEN [wopen EXCEPT ![Other(p)] = FALSE] ELSE wopen
          /\ Goto(p, "wait_for_done")
          /\ snd' = [snd EXCEPT ![p].finished = TRUE]
          /\ UNCHANGED <<err, conn>>
       \/ /\ ~conn[p].up
          /\ Fails(p, "failed to finish stream")
          /\ UNCHANGED snd
    /\ UNCHANGED <<ep, fr, tk, ctl, linked, flow, setup, noise, wire, tampered, src, hdr, fs, fs0, rcv, ev, feeds>>

\* A sender that takes any final message for the confirmation.
IsDoneLenient(plaintext) == TRUE
\* The final acknowledgement is accepted: its trimmed text is DONE.
IsDone(plaintext) == Trim(plaintext) = <<68, 79, 78, 69>>

\* wait_for_done, and on success the rest of the sender up to conn.close:
\* the connection summary, the status, Completed.
wait_for_done(p) ==
    /\ pc[p] = "wait_for_done"
    /\ \/ /\ CanRecv(p)
          /\ Recvd(p)
          /\ snd' = [snd EXCEPT ![p].tail = IF Decrypted(p).ok THEN "frame" ELSE "undecryptable",
                                ![p].text = Decrypted(p).plaintext]
          /\ IF Decrypted(p).ok /\ IsDone(Decrypted(p).plaintext)
             THEN /\ noise' = ReadMessage(p)
                  /\ \E summary \in ConnSummaries :
                       Emit(p, summary \o <<Status("File sent successfully"),
                                            Completed(hdr[p].name, hdr[p].size, <<>>)>>)
                  /\ Goto(p, "close")
                  /\ DropConnection(p)
                  /\ UNCHANGED err
             ELSE /\ Fails(p, IF Decrypted(p).ok THEN "tail_ack_mismatch"
                              ELSE "connection lost before receiver confirmation")
                  /\ UNCHANGED <<noise, ev>>
       \/ /\ RecvEof(p)
          /\ snd' = [snd EXCEPT ![p].tail = "eof"]
          /\ Fails(p, "connection lost before receiver confirmation")
          /\ UNCHANGED <<noise, ev, wire>>
    /\ UNCHANGED <<ep, fr, tk, ctl, linked, flow, setup, tampered, src, hdr, fs, fs0, rcv, feeds>>

\* ep.close().await, Ok(())
Close(p) ==
    /\ pc[p] = "close"
    /\ Goto(p, "ok")
    /\ UNCHANGED <<ep, fr, tk, ctl, linked, flow, conn, wopen, setup, noise, wire, tampered, src, hdr, fs, fs0, rcv, snd, ev, err, feeds>>


----------------------------------------------------------------------------
(* receive_file (receiver.rs).                                             *)

\* encrypted_read of the header, from_utf8, the empty check, from_wire.
ReadHeader(p) ==
    /\ pc[p] = "rf_header"
    /\ \/ /\ CanRecv(p)
          /\ Recvd(p)
          /\ LET r == Decrypted(p)
                 parsed == from_wire(r.plaintext)
             IN  IF r.ok /\ r.plaintext # <<>> /\ parsed.ok
                 THEN /\ noise' = ReadMessage(p)
                      /\ hdr' = [hdr EXCEPT ![p] = parsed.header]
                      /\ Emit(p, <<Status("Incoming file")>>)
                      /\ Goto(p, "rf_ack")
                      /\ UNCHANGED <<err, conn, wopen>>
                 ELSE /\ Fails(p, IF ~r.ok THEN "decrypt failed"
                                  ELSE IF r.plaintext = <<>> THEN "peer_closed"
                                  ELSE "bad header")
                      /\ UNCHANGED <<noise, hdr, ev>>
       \/ /\ RecvEof(p)
          /\ Fails(p, "read failed")
          /\ UNCHANGED <<noise, hdr, ev, wire>>
    /\ UNCHANGED <<ep, fr, tk, ctl, linked, flow, setup, tampered, src, fs, fs0, rcv, snd, feeds>>

\* encrypted_write(b"OK\n")
SendOk(p) ==
    /\ pc[p] = "rf_ack"
    /\ \/ /\ Sent(p, Encrypted(p, OkMsg))
          /\ noise' = WroteMessage(p)
          /\ Goto(p, "rf_mkdir")
          /\ UNCHANGED <<err, conn, wopen>>
       \/ /\ ~conn[p].up
          /\ Fails(p, "write failed")
          /\ UNCHANGED <<noise, wire>>
    /\ UNCHANGED <<ep, fr, tk, ctl, linked, flow, setup, tampered, src, hdr, fs, fs0, rcv, snd, ev, feeds>>

\* create_dir_all(output_dir)
CreateDirAll(p) ==
    /\ pc[p] = "rf_mkdir"
    /\ \/ Goto(p, "rf_dest") /\ UNCHANGED <<err, conn, wopen>>
       \/ Fails(p, "cannot create output directory")
    /\ UNCHANGED <<ep, fr, tk, ctl, linked, flow, setup, noise, wire, tampered, src, hdr, fs, fs0, rcv, snd, ev, feeds>>

\* A receiver that writes to the announced name whether or not it exists.
dest_path_not_unique(files, name) == Join(OutputDir, name)
\* The final destination receive_file picks.
dest_path(files, name) == unique_path(files, OutputDir, name)

\* let dest = unique_path(output_dir, &header.name)
ChooseDest(p) ==
    /\ pc[p] = "rf_dest"
    /\ rcv' = [rcv EXCEPT ![p].dest = dest_path(fs.dir, hdr[p].name)]
    /\ Goto(p, "rf_temp")
    /\ UNCHANGED <<ep, fr, tk, ctl, linked, flow, conn, wopen, setup, noise, wire, tampered, src, hdr, fs, fs0, snd, ev, err, feeds>>

\* let temp_dest = unique_path(output_dir, "<name>.part"); status("Saving to")
ChooseTemp(p) ==
    /\ pc[p] = "rf_temp"
    /\ rcv' = [rcv EXCEPT ![p].temp = unique_path(fs.dir, OutputDir, PartName(hdr[p].name))]
    /\ Emit(p, <<Status("Saving to")>>)
    /\ Goto(p, "rf_create")
    /\ UNCHANGED <<ep, fr, tk, ctl, linked, flow, conn, wopen, setup, noise, wire, tampered, src, hdr, fs, fs0, snd, err, feeds>>

\* File::create(&temp_dest): a failure here returns before the cleanup arm.
CreateTemp(p) ==
    /\ pc[p] = "rf_create"
    /\ \/ /\ fs' = FsCreate(fs, rcv[p].temp)
          /\ rcv' = [rcv EXCEPT ![p].file = CreatedInode(fs, rcv[p].temp),
                                ![p].created = TRUE]
          /\ Goto(p, "rf_loop")
          /\ UNCHANGED <<err, conn, wopen>>
       \/ /\ Fails(p, "cannot create file")
          /\ UNCHANGED <<fs, rcv>>
    /\ UNCHANGED <<ep, fr, tk, ctl, linked, flow, setup, noise, wire, tampered, src, hdr, fs0, snd, ev, feeds>>

\* An error inside the receive block: the cleanup arm runs next.
ToCleanup(p, why) ==
    /\ Goto(p, "rf_cleanup")
    /\ err' = [err EXCEPT ![p] = why]
    /\ UNCHANGED <<conn, wopen>>

\* A frame of length zero: it has no tag, so that no key verifies it.
ZeroLengthFrame == [hs |-> FALSE, e |-> 0, k |-> -1, n |-> 0, body |-> <<>>]

\* What the last read of the receive loop met.
LastRead(p, what) == [rcv EXCEPT ![p].last = what]

\* One turn of the receive loop: encrypted_read, write_all, hasher.update,
\* received += len, Progress.  An empty plaintext breaks the loop.
ReceiveChunk(p) ==
    /\ pc[p] = "rf_loop"
    /\ rcv[p].received < hdr[p].size
    /\ \/ /\ CanRecv(p)
          /\ Recvd(p)
          /\ LET r == Decrypted(p)
                 data == r.plaintext
             IN  IF ~r.ok
                 THEN /\ ToCleanup(p, "decrypt failed")
                      /\ rcv' = LastRead(p, IF Head(wire[p]) = ZeroLengthFrame
                                            THEN "zero-length frame" ELSE "bad frame")
                      /\ UNCHANGED <<noise, fs, ev>>
                 ELSE IF data = <<>>
                 THEN /\ noise' = ReadMessage(p)
                      /\ Goto(p, "rf_flush")
                      /\ rcv' = LastRead(p, "empty plaintext")
                      /\ UNCHANGED <<fs, ev, err, conn, wopen>>
                 ELSE \/ /\ noise' = ReadMessage(p)
                         /\ fs' = FsWrite(fs, rcv[p].file, rcv[p].received, data)
                         /\ rcv' = [rcv EXCEPT ![p] =
                               [@ EXCEPT !.received = @ + Len(data),
                                         !.hasher = hasher_update(@, data),
                                         !.frames = Append(@, data),
                                         !.last = "data"]]
                         /\ Emit(p, <<Progress(rcv[p].received + Len(data), hdr[p].size)>>)
                         /\ UNCHANGED <<pc, err, conn, wopen>>
                      \/ /\ noise' = ReadMessage(p)
                         /\ ToCleanup(p, "write failed")
                         /\ rcv' = LastRead(p, "data")
                         /\ UNCHANGED <<fs, ev>>
       \/ /\ RecvEof(p)
          /\ ToCleanup(p, "read failed")
          /\ rcv' = LastRead(p, "end of stream")
          /\ UNCHANGED <<noise, fs, ev, wire>>
    /\ UNCHANGED <<ep, fr, tk, ctl, linked, flow, setup, tampered, src, hdr, fs0, snd, feeds>>

\* The checks after the loop: the byte count, then the digest.
size_ok(received, header) == received = header.size
\* A receiver that skips the digest comparison.
hash_ok_unchecked(hasher, header) == TRUE
hash_ok(hasher, header) == hasher_finalize_hex(hasher) = header.blake3

\* The loop is over: file.flush(), drop(file), the two checks.
FlushAndVerify(p) ==
    /\ \/ pc[p] = "rf_flush"
       \/ pc[p] = "rf_loop" /\ rcv[p].received >= hdr[p].size
    /\ \/ ToCleanup(p, "flush failed") /\ UNCHANGED rcv
       \/ IF ~size_ok(rcv[p].received, hdr[p])
          THEN ToCleanup(p, "Incomplete transfer") /\ UNCHANGED rcv
          ELSE IF ~hash_ok(rcv[p].hasher, hdr[p])
          THEN ToCleanup(p, "Checksum mismatch!") /\ UNCHANGED rcv
          ELSE /\ Goto(p, "rf_rename")
               /\ rcv' = [rcv EXCEPT ![p].verified = TRUE]
               /\ UNCHANGED <<err, conn, wopen>>
    /\ UNCHANGED <<ep, fr, tk, ctl, linked, flow, setup, noise, wire, tampered, src, hdr, fs, fs0, snd, ev, feeds>>

\* tokio::fs::rename(&temp_dest, &dest)
Rename(p) ==
    /\ pc[p] = "rf_rename"
    /\ \/ /\ Exists(fs, rcv[p].temp)
          /\ fs' = FsRename(fs, rcv[p].temp, rcv[p].dest)
          /\ Goto(p, "rf_done")
          /\ UNCHANGED <<err, conn, wopen>>
       \/ /\ ToCleanup(p, "rename failed")
          /\ UNCHANGED fs
    /\ UNCHANGED <<ep, fr, tk, ctl, linked, flow, setup, noise, wire, tampered, src, hdr, fs0, rcv, snd, ev, feeds>>

\* encrypted_write(b"DONE\n"), and on success the rest of the receiver up to
\* conn.close: the two statuses and Completed of receive_file, then the
\* caller's connection summary.
SendDone(p) ==
    /\ pc[p] = "rf_done"
    /\ \/ /\ Sent(p, Encrypted(p, DoneMsg))
          /\ noise' = WroteMessage(p)
          /\ \E summary \in ConnSummaries :
               Emit(p, <<Status("File received successfully"),
                         Status("Checksum verified (blake3)."),
                         Completed(hdr[p].name, hdr[p].size, rcv[p].dest)>> \o summary)
          /\ Goto(p, "close")
          /\ DropConnection(p)
          /\ UNCHANGED err
       \/ /\ ~conn[p].up
          /\ ToCleanup(p, "write failed")
          /\ UNCHANGED <<noise, wire, ev>>
    /\ UNCHANGED <<ep, fr, tk, ctl, linked, flow, setup, tampered, src, hdr, fs, fs0, rcv, snd, feeds>>

\* The cleanup arm: remove_file(&temp_dest), its result ignored; return Err.
Cleanup(p) ==
    /\ pc[p] = "rf_cleanup"
    /\ fs' = FsRemove(fs, rcv[p].temp)
    /\ Goto(p, "err")
    /\ DropConnection(p)
    /\ UNCHANGED <<ep, fr, tk, ctl, linked, flow, setup, noise, wire, tampered, src, hdr, fs0, rcv, snd, ev, err, feeds>>

----------------------------------------------------------------------------
(* The environment: the network, and a remote that is not this program.    *)

\* The connection is lost: frames in flight are gone, every read and write
\* fails from now on.
ConnectionLost(p) ==
    /\ Local(p) /\ conn[p].up
    /\ SetConn(p, [conn[p] EXCEPT !.up = FALSE])
    /\ wire' = [q \in Peers |-> IF q \in Ends(p) THEN <<>> ELSE wire[q]]
    /\ wopen' = [q \in Peers |-> IF q \in Ends(p) THEN FALSE ELSE wopen[q]]
    /\ UNCHANGED <<ep, fr, tk, ctl, linked, flow, pc, setup, noise, tampered, src, hdr, fs, fs0, rcv, snd, ev, err, feeds>>

\* Someone on the path replaces the key in a handshake frame.
Tamper(p) ==
    /\ linked /\ ~tampered
    /\ wire[p] # <<>> /\ Head(wire[p]).hs
    /\ \E e \in AttackerEphemerals :
         wire' = [wire EXCEPT ![p] = <<HandshakeFrame(e)>> \o Tail(@)]
    /\ tampered' = TRUE
    /\ UNCHANGED <<ep, fr, tk, ctl, linked, flow, pc, conn, setup, noise, wopen, src, hdr, fs, fs0, rcv, snd, ev, err, feeds>>

\* The header a foreign sender announces for a file of n bytes: the digest
\* is that of n one-bytes, whatever it goes on to send.
RECURSIVE Ones(_)
Ones(n) == IF n = 0 THEN <<>> ELSE Append(Ones(n - 1), 1)

RemoteHeaders ==
    {[name |-> nm, size |-> n, blake3 |-> Blake3Hex(Ones(n))] :
        nm \in Names, n \in 0..MaxFileLen}

\* Plaintexts a foreign remote may send: headers, acknowledgements right
\* and wrong, data chunks, the empty plaintext.
RemotePlaintexts ==
    {to_wire(h) : h \in RemoteHeaders}
        \cup {OkMsg, DoneMsg, <<68, 79, 78, 69>>, <<>>}
        \cup {<<1>>, <<0>>, Ones(ChunkSize)}

\* A foreign remote sends one frame: its handshake message while the local
\* handshake runs, then transport messages under the session's key.
RemoteSends(p) ==
    /\ ~linked /\ Local(p)
    /\ conn[p].up /\ wopen[p] /\ wire[p] = <<>>
    /\ feeds[p] < MaxFeeds
    /\ pc[p] \notin {"stream", "close"}
    /\ feeds' = [feeds EXCEPT ![p] = @ + 1]
    /\ IF ~noise[p].done
       THEN \E e \in RemoteEphemerals : wire' = [wire EXCEPT ![p] = <<HandshakeFrame(e)>>]
       ELSE \E plaintext \in RemotePlaintexts :
              wire' = [wire EXCEPT ![p] =
                          <<write_message(noise[p].k, noise[p].nr, plaintext)>>]
    /\ UNCHANGED <<ep, fr, tk, ctl, linked, flow, pc, conn, setup, noise, wopen, tampered, src, hdr, fs, fs0, rcv, snd, ev, err>>

\* A foreign remote finishes its stream.
RemoteFinishes(p) ==
    /\ ~linked /\ Local(p)
    /\ conn[p].up /\ wopen[p]
    /\ wopen' = [wopen EXCEPT ![p] = FALSE]
    /\ UNCHANGED <<ep, fr, tk, ctl, linked, flow, pc, conn, setup, noise, wire, tampered, src, hdr, fs, fs0, rcv, snd, ev, err, feeds>>

----------------------------------------------------------------------------
(* The session's specification.                                            *)

Next ==
    \/ \E p \in Peers : Prepare(p)
    \/ \E p \in Peers : Dial(p)
    \/ \E p \in Peers : Accept(p)
    \/ \E p \in Peers : OpenStream(p)
    \/ \E p \in Peers : InitiatorSend(p)
    \/ \E p \in Peers : InitiatorRecv(p)
    \/ \E p \in Peers : ResponderRecv(p)
    \/ \E p \in Peers : ResponderSend(p)
    \/ \E p \in Peers : SendHeader(p)
    \/ \E p \in Peers : ReadAck(p)
    \/ \E p \in Peers : OpenFile(p)
    \/ \E p \in Peers : SendChunk(p)
    \/ \E p \in Peers : SendEnd(p)
    \/ \E p \in Peers : Finish(p)
    \/ \E p \in Peers : wait_for_done(p)
    \/ \E p \in Peers : Close(p)
    \/ \E p \in Peers : ReadHeader(p)
    \/ \E p \in Peers : SendOk(p)
    \/ \E p \in Peers : CreateDirAll(p)
    \/ \E p \in Peers : ChooseDest(p)
    \/ \E p \in Peers : ChooseTemp(p)
    \/ \E p \in Peers : CreateTemp(p)
    \/ \E p \in Peers : ReceiveChunk(p)
    \/ \E p \in Peers : FlushAndVerify(p)
    \/ \E p \in Peers : Rename(p)
    \/ \E p \in Peers : SendDone(p)
    \/ \E p \in Peers : Cleanup(p)
    \/ \E p \in Peers : ConnectionLost(p)
    \/ \E p \in Peers : Tamper(p)
    \/ \E p \in Peers : RemoteSends(p)
    \/ \E p \in Peers : RemoteFinishes(p)

Spec == Init /\ [][Next]_vars


----------------------------------------------------------------------------
(* Properties of the session.                                              *)

RECURSIVE Flatten(_)
Flatten(seqs) == IF seqs = <<>> THEN <<>> ELSE Head(seqs) \o Flatten(Tail(seqs))

HasEvent(p, kind) == \E i \in 1..Len(ev[p]) : ev[p][i].k = kind

\* receive_file returned Ok: Completed is out, the driver is closing or done.
ReceiveSucceeded(p) == Downloader(p) /\ pc[p] \in {"close", "ok"}

\* C1: after a receive that ends successfully, the file at the final
\* destination holds exactly the decrypted data frames in order, as many
\* bytes as header.size, and its BLAKE3 hex digest is header.blake3.
C1_CompletedReceiveIsVerified ==
    \A p \in Peers :
        ReceiveSucceeded(p) =>
            /\ HasEvent(p, "Completed")
            /\ Exists(fs, rcv[p].dest)
            /\ FileAt(fs, rcv[p].dest) = Flatten(rcv[p].frames)
            /\ Len(FileAt(fs, rcv[p].dest)) = hdr[p].size
            /\ Blake3Hex(FileAt(fs, rcv[p].dest)) = hdr[p].blake3

\* A receive of two data frames has ended successfully.
C1_Witness ==
    \E p \in Peers :
        ReceiveSucceeded(p) /\ pc[p] = "ok" /\ Len(rcv[p].frames) = 2

\* C2: once a receive session has chosen its final destination, that path
\* either does not exist or holds a file of this session that passed the
\* size and digest checks against the header; it never exists together with
\* the session's temp file.
C2_FinalPathAbsentOrVerified ==
    \A p \in Peers :
        (Downloader(p) /\ rcv[p].dest # <<>> /\ Exists(fs, rcv[p].dest)) =>
            /\ rcv[p].verified
            /\ Len(FileAt(fs, rcv[p].dest)) = hdr[p].size
            /\ Blake3Hex(FileAt(fs, rcv[p].dest)) = hdr[p].blake3
            /\ ~(rcv[p].created /\ Exists(fs, rcv[p].temp))

\* A verified file is at a numbered final path, beside the old file of the
\* same name.
C2_Witness ==
    \E p \in Peers :
        /\ Downloader(p) /\ pc[p] = "rf_done"
        /\ Exists(fs, rcv[p].dest)
        /\ rcv[p].dest # Join(OutputDir, hdr[p].name)
        /\ Exists(fs, Join(OutputDir, hdr[p].name))

\* C3: after a receive session has returned an error, its final destination
\* holds no file that was not there before the session, and its temp file
\* does not exist.
C3_FailedReceiveLeavesNothing ==
    \A p \in Peers :
        (Downloader(p) /\ pc[p] = "err") =>
            /\ rcv[p].dest # <<>> /\ Exists(fs, rcv[p].dest) => Exists(fs0, rcv[p].dest)
            /\ rcv[p].temp # <<>> => ~Exists(fs, rcv[p].temp)

\* The text t is DONE between two runs of whitespace.
TrimsToDone(t) ==
    \E a \in 0..Len(t) : \E b \in 0..(Len(t) - a) :
        /\ \A i \in 1..a : IsSpace(t[i])
        /\ \A i \in (Len(t) - b + 1)..Len(t) : IsSpace(t[i])
        /\ SubSeq(t, a + 1, Len(t) - b) = <<68, 79, 78, 69>>

\* C5: a sender, in normal and in reverse mode, has emitted Completed or is
\* returning Ok only if the last frame it read decrypted to a text that trims
\* to DONE; a sender that returned an error emitted no Completed.
C5_CompletedOnlyAfterDone ==
    \A p \in Peers :
        Uploader(p) =>
            /\ (HasEvent(p, "Completed") \/ pc[p] \in {"close", "ok"}) =>
                   snd[p].tail = "frame" /\ TrimsToDone(snd[p].text)
            /\ pc[p] = "err" => ~HasEvent(p, "Completed")
            /\ snd[p].tail \in {"eof", "undecryptable"} => pc[p] = "err"
            /\ (snd[p].tail = "frame" /\ ~TrimsToDone(snd[p].text)) => pc[p] = "err"

\* A reverse-mode sender has returned Ok.
C5_Witness ==
    \E p \in Peers :
        /\ flow[p] = "send_to_ticket" /\ pc[p] = "ok"
        /\ HasEvent(p, "Completed")

\* The value of a lower-case hex digit.
HexValue(c) == IF c <= 57 THEN c - 48 ELSE c - 87

\* The code the peer emitted in its HandshakeCode event.
EmittedCode(p) ==
    LET i == CHOOSE i \in 1..Len(ev[p]) : ev[p][i].k = "HandshakeCode"
    IN  ev[p][i].v

\* code spells the first four bytes of hash: xxxx-xxxx.
SpellsHash(code, hash) ==
    /\ Len(code) = 9
    /\ code[5] = 45
    /\ \A j \in 1..4 :
         LET at == IF j <= 2 THEN 2 * j - 1 ELSE 2 * j
         IN  hash[j] = 16 * HexValue(code[at]) + HexValue(code[at + 1])

\* Both peers of a linked session have finished the handshake and nothing
\* altered the stream.
BothEstablished ==
    linked /\ ~tampered /\ \A p \in Peers : noise[p].done

\* C6: when both peers complete the handshake over the unmodified stream,
\* they emit the same verification code, and it spells bytes 0..4 of the
\* hash of the two handshake messages.
C6_SameVerificationCode ==
    BothEstablished =>
        /\ EmittedCode("L") = EmittedCode("D")
        /\ \A p \in Peers :
             SpellsHash(EmittedCode(p), get_handshake_hash(noise["D"].e, noise["L"].e))

C6_Witness == BothEstablished /\ noise["L"].e # noise["D"].e

\* C7: in each flow the peer that dials opens the stream and runs the
\* initiator, the peer that accepts the connection accepts the stream and
\* runs the responder; two linked peers never run the same Noise role.
C7_DialerInitiates ==
    /\ \A p \in Peers :
         /\ setup[p].conn = "connect" =>
                setup[p].stream \in {"none", "open_bi"} /\ setup[p].role \in {"none", "initiator"}
         /\ setup[p].conn = "accept" =>
                setup[p].stream \in {"none", "accept_bi"} /\ setup[p].role \in {"none", "responder"}
         /\ setup[p].stream # "none" => setup[p].conn # "none"
         /\ setup[p].role # "none" => setup[p].stream # "none"
    /\ linked => ~(setup["L"].role # "none" /\ setup["L"].role = setup["D"].role)

\* A listening receiver answers a dialing sender.
C7_Witness ==
    /\ linked
    /\ flow["L"] = "receive_listen" /\ flow["D"] = "send_to_ticket"
    /\ setup["L"] = [conn |-> "accept", stream |-> "accept_bi", role |-> "responder"]
    /\ setup["D"] = [conn |-> "connect", stream |-> "open_bi", role |-> "initiator"]

\* C8: on every connection the listener has accepted it is the uploader
\* exactly when the tag is p2p-share/1 and the downloader exactly when the
\* tag is p2p-share/1-reverse, and of two linked peers exactly one uploads.
C8_RoleFollowsTag ==
    setup["L"].conn = "accept" =>
        /\ Uploader("L") <=> conn["L"].alpn = "p2p-share/1"
        /\ Downloader("L") <=> conn["L"].alpn = "p2p-share/1-reverse"
        /\ linked => (Uploader("L") <=> Downloader("D"))

----------------------------------------------------------------------------
(* Two receive sessions at once, into the same output directory.  Each has *)
(* its own connection to a foreign sender; they share the file system.     *)

\* The piece of the announced file a sender sends next: what is left of it,
\* a chunk at most.
NextChunk(header, sent) ==
    SubSeq(Ones(header.size), sent + 1, Min(sent + ChunkSize, header.size))

\* A foreign remote that runs this program's sender sends its next frame:
\* its handshake message, then a header for a.t, then, once the receiver
\* reads data, the file's chunks.
RemoteUploads(p) ==
    /\ ~linked /\ Local(p)
    /\ conn[p].up /\ wopen[p] /\ wire[p] = <<>>
    /\ feeds[p] < MaxFeeds
    /\ feeds' = [feeds EXCEPT ![p] = @ + 1]
    /\ \/ /\ ~noise[p].done /\ pc[p] \in {"handshake", "handshake_reply"}
          /\ \E e \in RemoteEphemerals : wire' = [wire EXCEPT ![p] = <<HandshakeFrame(e)>>]
       \/ /\ noise[p].done /\ pc[p] = "rf_header"
          /\ \E h \in RemoteHeaders :
               /\ h.name = <<97, 46, 116>>
               /\ wire' = [wire EXCEPT ![p] =
                              <<write_message(noise[p].k, noise[p].nr, to_wire(h))>>]
       \/ /\ noise[p].done /\ pc[p] = "rf_loop" /\ rcv[p].received < hdr[p].size
          /\ wire' = [wire EXCEPT ![p] =
                         <<write_message(noise[p].k, noise[p].nr,
                                         NextChunk(hdr[p], rcv[p].received))>>]
    /\ UNCHANGED <<ep, fr, tk, ctl, linked, flow, pc, conn, setup, noise, wopen, tampered, src, hdr, fs, fs0, rcv, snd, ev, err>>

InitConc ==
    /\ linked = FALSE
    /\ flow = [p \in Peers |-> IF p = "L" THEN "receive_listen" ELSE "receive_from_ticket"]
    /\ InitCommon
    /\ ctl = NoCtl
    /\ tk = NoTk
    /\ fr = NoFr
    /\ ep = NoEp

NextConc ==
    \/ \E p \in Peers : Prepare(p)
    \/ \E p \in Peers : Dial(p)
    \/ \E p \in Peers : Accept(p)
    \/ \E p \in Peers : OpenStream(p)
    \/ \E p \in Peers : InitiatorSend(p)
    \/ \E p \in Peers : InitiatorRecv(p)
    \/ \E p \in Peers : ResponderRecv(p)
    \/ \E p \in Peers : ResponderSend(p)
    \/ \E p \in Peers : ReadHeader(p)
    \/ \E p \in Peers : SendOk(p)
    \/ \E p \in Peers : CreateDirAll(p)
    \/ \E p \in Peers : ChooseDest(p)
    \/ \E p \in Peers : ChooseTemp(p)
    \/ \E p \in Peers : CreateTemp(p)
    \/ \E p \in Peers : ReceiveChunk(p)
    \/ \E p \in Peers : FlushAndVerify(p)
    \/ \E p \in Peers : Rename(p)
    \/ \E p \in Peers : SendDone(p)
    \/ \E p \in Peers : Cleanup(p)
    \/ \E p \in Peers : Close(p)
    \/ \E p \in Peers : ConnectionLost(p)
    \/ \E p \in Peers : RemoteUploads(p)

SpecConc == InitConc /\ [][NextConc]_vars

\* The session is writing its temp file or about to rename it.
HoldsTemp(p) == rcv[p].created /\ pc[p] \in {"rf_loop", "rf_flush", "rf_rename"}

\* C9: two receive sessions at once into the same directory, for the same
\* file name, keep apart: while both hold a temp file the two are different
\* paths and each is still there, and when both have succeeded their final
\* files are different paths, each holding what its session received.
C9_ConcurrentReceivesKeepApart ==
    (/\ ~linked /\ \A p \in Peers : Downloader(p)
     /\ hdr["L"] # NoHeader /\ hdr["D"] # NoHeader
     /\ hdr["L"].name = hdr["D"].name) =>
        /\ (HoldsTemp("L") /\ HoldsTemp("D")) => rcv["L"].temp # rcv["D"].temp
        /\ \A p \in Peers : HoldsTemp(p) => Exists(fs, rcv[p].temp)
        /\ \A p \in Peers :
             ReceiveSucceeded(p) =>
                 /\ Exists(fs, rcv[p].dest)
                 /\ FileAt(fs, rcv[p].dest) = Flatten(rcv[p].frames)
        /\ (ReceiveSucceeded("L") /\ ReceiveSucceeded("D")) => rcv["L"].dest # rcv["D"].dest

----------------------------------------------------------------------------
(* The host of a session: the embedding TransferController, whose sink is  *)
(* its event queue, or the CLI's run_json, whose sink is standard output.  *)
(* The driver is a task of the runtime; of its run the host sees the       *)
(* events it emits and whether it returns Ok or Err.                       *)

SessionVars == <<linked, flow, pc, conn, setup, noise, wire, wopen, tampered, src, hdr,
                 fs, fs0, rcv, snd, ev, err, feeds>>

\* push_event / emit_json_line: the record goes to the back of the queue.
push_event(c, s, kind, message) ==
    [c EXCEPT !.queue = Append(@, [k |-> kind, m |-> message]),
              !.log = Append(@, [s |-> s, k |-> kind, m |-> message])]

\* A wrapper that reports an error whatever the driver returned.
WrapperAlwaysReports(result) == <<"Error">>
\* What the task wrapper pushes once the driver has returned.
WrapperEvents(result) == IF result = "err" THEN <<"Error">> ELSE <<>>

\* A cancel that leaves the running task alone.
CanceledNothing(c) == c
\* The controller after cancel(): the handle is taken, abort() called on it,
\* the canceled Status pushed; nothing when there is no handle.
Canceled(c) ==
    IF c.task = 0 THEN c
    ELSE push_event([c EXCEPT !.task = 0, !.sess[c.task].abort = TRUE],
                    c.task, "Status", "Transfer canceled by user.")

\* TransferController::cancel
cancel ==
    /\ ctl.host = "controller"
    /\ ctl.task # 0
    /\ ctl' = Canceled(ctl)
    /\ UNCHANGED <<SessionVars, tk, fr, ep>>

\* TransferController::start_task, under each of the four start_* calls.
start_task ==
    /\ ctl.host = "controller"
    /\ ctl.started < MaxSessions
    /\ LET n == ctl.started + 1
           c == push_event(Canceled(ctl), n, "Status", "Transfer started.")
       IN  ctl' = [c EXCEPT !.started = n, !.task = n, !.sess[n].st = "running"]
    /\ UNCHANGED <<SessionVars, tk, fr, ep>>

\* A deque that hands out its newest element.
pop_back(q) ==
    IF q = <<>> THEN [some |-> FALSE, rest |-> q]
    ELSE [some |-> TRUE, event |-> q[Len(q)], rest |-> SubSeq(q, 1, Len(q) - 1)]
\* VecDeque::pop_front: the oldest element, if there is one.
pop_front(q) ==
    IF q = <<>> THEN [some |-> FALSE, rest |-> q]
    ELSE [some |-> TRUE, event |-> Head(q), rest |-> Tail(q)]

\* TransferController::poll_event: it locks the queue and pops its front.
poll_event ==
    /\ ctl.host = "controller"
    /\ LET r == pop_front(ctl.queue)
       IN  ctl' = [ctl EXCEPT !.queue = r.rest,
                              !.got = IF r.some THEN Append(@, r.event) ELSE @,
                              !.last = IF r.some THEN "event" ELSE "nothing",
                              !.lastEmpty = (ctl.queue = <<>>)]
    /\ UNCHANGED <<SessionVars, tk, fr, ep>>

\* run_json up to the call of the driver, which it awaits in place.
run_json ==
    /\ ctl.host = "cli"
    /\ ctl.started = 0
    /\ ctl' = [push_event(ctl, 1, "Status", "Transfer started.")
                  EXCEPT !.started = 1, !.sess[1].st = "running"]
    /\ UNCHANGED <<SessionVars, tk, fr, ep>>

\* The driver's state when the poll it is in ends: an abort requested on
\* the task takes effect there.
AfterPoll(s, st) == IF ctl.sess[s].abort THEN "aborted" ELSE st

\* The driver emits a Status, Ticket, HandshakeCode or Progress.
DriverEmits(s) ==
    /\ ctl.sess[s].st = "running"
    /\ Len(ctl.log) < MaxLog
    /\ ctl' = [push_event(ctl, s, "Status", "") EXCEPT !.sess[s].st = AfterPoll(s, "running")]
    /\ UNCHANGED <<SessionVars, tk, fr, ep>>

\* spawn_conn_type_watcher: the driver starts the task that reports path
\* changes, and keeps its handle.
SpawnWatcher(s) ==
    /\ ctl.sess[s].st = "running"
    /\ ctl.sess[s].w = "none"
    /\ ctl' = [ctl EXCEPT !.sess[s].w = "watching",
                          !.sess[s].st = AfterPoll(s, "running")]
    /\ UNCHANGED <<SessionVars, tk, fr, ep>>

\* The transfer succeeded: Completed is emitted, the watcher aborted, the
\* endpoint is closing.
DriverCompletes(s) ==
    /\ ctl.sess[s].st = "running"
    /\ ctl' = [push_event(ctl, s, "Completed", "")
                  EXCEPT !.sess[s].w = IF @ = "watching" THEN "ended" ELSE @,
                         !.sess[s].st = AfterPoll(s, "completed")]
    /\ UNCHANGED <<SessionVars, tk, fr, ep>>

\* The errors a driver may return.
DriverErrors == {"read failed", "Incomplete transfer", "Checksum mismatch!"}

\* The code of the Error record the host makes of a driver's error: the
\* same for every error.
error_code(e) == "transfer_error"

\* main with a status that is always 0.
exit_status_zero(result) == 0
\* main: std::process::exit(1) on Err, the end of main on Ok.
exit_status(result) == IF result = "err" THEN 1 ELSE 0

\* The exit status of the host: the CLI's process ends when run_json has
\* returned; a controller lives on (-1).
Exited(c, result) == IF c.host = "cli" THEN exit_status(result) ELSE c.exit

\* ep.close() is over and the driver returns Ok.
DriverReturnsOk(s) ==
    /\ ctl.sess[s].st = "completed"
    /\ LET events == WrapperEvents("ok")
       IN  ctl' = [(IF events = <<>> THEN ctl ELSE push_event(ctl, s, events[1], error_code("")))
                      EXCEPT !.sess[s].st = "ok", !.exit = Exited(ctl, "ok")]
    /\ UNCHANGED <<SessionVars, tk, fr, ep>>

\* The driver returns Err, or run_json has no driver to call (receive with
\* neither a target nor --qr): the wrapper reports it.  The watcher's handle
\* is dropped, not aborted.
DriverFails(s) ==
    /\ ctl.sess[s].st = "running"
    /\ \E e \in DriverErrors :
         LET events == WrapperEvents("err")
         IN  ctl' = [(IF events = <<>> THEN ctl ELSE push_event(ctl, s, events[1], error_code(e)))
                        EXCEPT !.sess[s].st = "err", !.exit = Exited(ctl, "err")]
    /\ UNCHANGED <<SessionVars, tk, fr, ep>>

\* The aborted task is at an await: it is dropped there.
AbortTakesEffect(s) ==
    /\ ctl.sess[s].abort
    /\ ctl.sess[s].st \in {"running", "completed"}
    /\ ctl' = [ctl EXCEPT !.sess[s].st = "aborted"]
    /\ UNCHANGED <<SessionVars, tk, fr, ep>>

\* The process of the host is still there for the session's tasks.
HostAlive(s) == ctl.host = "controller" \/ ctl.sess[s].st \in {"running", "completed"}

\* The watcher task reports a change of the connection's path, for as long
\* as the stream of updates goes on.
WatcherEmits(s) ==
    /\ ctl.sess[s].w = "watching"
    /\ HostAlive(s)
    /\ Len(ctl.log) < MaxLog
    /\ ctl' = push_event(ctl, s, "ConnectionPath", "")
    /\ UNCHANGED <<SessionVars, tk, fr, ep>>

InitCtl ==
    /\ linked = FALSE
    /\ flow = [p \in Peers |-> "remote"]
    /\ InitCommon
    /\ \E host \in {"controller", "cli"} : ctl = [NoCtl EXCEPT !.host = host]
    /\ tk = NoTk
    /\ fr = NoFr
    /\ ep = NoEp

\* The producers of the host's events.
NextCtl ==
    \/ cancel
    \/ start_task
    \/ run_json
    \/ \E s \in Sessions : DriverEmits(s)
    \/ \E s \in Sessions : SpawnWatcher(s)
    \/ \E s \in Sessions : DriverCompletes(s)
    \/ \E s \in Sessions : DriverReturnsOk(s)
    \/ \E s \in Sessions : DriverFails(s)
    \/ \E s \in Sessions : AbortTakesEffect(s)
    \/ \E s \in Sessions : WatcherEmits(s)

SpecCtl == InitCtl /\ [][NextCtl]_vars

\* A controller, its sessions' drivers, and the embedder polling the queue.
InitQueue ==
    /\ linked = FALSE
    /\ flow = [p \in Peers |-> "remote"]
    /\ InitCommon
    /\ ctl = [NoCtl EXCEPT !.host = "controller"]
    /\ tk = NoTk
    /\ fr = NoFr
    /\ ep = NoEp

NextQueue ==
    \/ poll_event
    \/ cancel
    \/ start_task
    \/ \E s \in Sessions : DriverEmits(s)
    \/ \E s \in Sessions : DriverCompletes(s)
    \/ \E s \in Sessions : DriverReturnsOk(s)
    \/ \E s \in Sessions : DriverFails(s)
    \/ \E s \in Sessions : AbortTakesEffect(s)

SpecQueue == InitQueue /\ [][NextQueue]_vars

\* What the drivers give their host, as the session model has them: a driver
\* never emits Error, emits Completed once at most, has emitted it when and
\* only when it returns Ok.
DriverEventsContract ==
    \A p \in Peers :
        /\ ~HasEvent(p, "Error")
        /\ Cardinality({i \in 1..Len(ev[p]) : ev[p][i].k = "Completed"}) <= 1
        /\ pc[p] \in {"close", "ok"} <=> HasEvent(p, "Completed")

\* The places in the log of the session's events of the given kinds.
EventsOf(s, kinds) == {i \in 1..Len(ctl.log) : ctl.log[i].s = s /\ ctl.log[i].k \in kinds}

Terminals(s) == Cardinality(EventsOf(s, {"Completed", "Error"}))

\* The session is over: its driver returned or was dropped.
Ended(s) == ctl.sess[s].st \in {"ok", "err", "aborted"}

\* C4 as stated: every session with a sink, however it ends, has delivered
\* exactly one terminal event, Completed or Error.
C4_ExactlyOneTerminalEvent ==
    \A s \in Sessions :
        /\ Terminals(s) <= 1
        /\ Ended(s) => Terminals(s) = 1

\* C4: a session never delivers more than one terminal event; one whose
\* driver returned Ok has delivered one Completed and no Error, one whose
\* driver returned Err one Error and no Completed; one that was aborted has
\* delivered no Error and may have delivered no terminal event at all.
C4_OneTerminalEventUnlessAborted ==
    \A s \in Sessions :
        /\ Terminals(s) <= 1
        /\ ctl.sess[s].st = "ok" => Cardinality(EventsOf(s, {"Completed"})) = 1
        /\ ctl.sess[s].st = "err" => Cardinality(EventsOf(s, {"Error"})) = 1
        /\ ctl.sess[s].st = "aborted" => EventsOf(s, {"Error"}) = {}
        /\ ctl.sess[s].st \in {"none", "running"} => Terminals(s) = 0

\* One session was aborted without a terminal event, the next returned Ok.
C4_Witness ==
    /\ ctl.sess[1].st = "aborted" /\ Terminals(1) = 0
    /\ ctl.sess[2].st = "ok" /\ Terminals(2) = 1

\* The place in the log of the canceled Status of session s, 0 if none.
CanceledAt(s) ==
    LET at == {i \in EventsOf(s, {"Status"}) : ctl.log[i].m = "Transfer canceled by user."}
    IN  IF at = {} THEN 0 ELSE CHOOSE i \in at : TRUE

\* C10: cancel aborts the running session's driver and enqueues a canceled
\* Status that is the last event of that session: nothing the session's
\* driver or watcher produces is enqueued after it.
C10_CanceledIsFinalEvent ==
    \A s \in Sessions :
        CanceledAt(s) # 0 =>
            /\ ctl.sess[s].abort
            /\ \A i \in EventsOf(s, {"Status", "Completed", "Error", "ConnectionPath"}) :
                   i <= CanceledAt(s)

----------------------------------------------------------------------------
(* A receive session whose driver task is aborted.                         *)

\* The driver is suspended at an await (or was never polled): not between
\* the two unique_path calls, which run in the poll that create_dir_all ends.
AtAwait(p) == Local(p) /\ pc[p] \notin {"ok", "err", "aborted", "rf_dest", "rf_temp"}

\* handle.abort() takes effect: the runtime drops the driver's future where
\* it is suspended.  Its streams, connection and endpoint go with it; no
\* code of the driver runs any more.
Abort(p) ==
    /\ AtAwait(p)
    /\ Goto(p, "aborted")
    /\ DropConnection(p)
    /\ UNCHANGED <<ep, fr, tk, ctl, linked, flow, setup, noise, wire, tampered, src, hdr, fs, fs0, rcv, snd, ev, err, feeds>>

InitCancel ==
    /\ linked = FALSE
    /\ \E p \in Peers :
         flow = [q \in Peers |-> IF q # p THEN "remote"
                                 ELSE IF p = "L" THEN "receive_listen" ELSE "receive_from_ticket"]
    /\ InitCommon
    /\ ctl = NoCtl
    /\ tk = NoTk
    /\ fr = NoFr
    /\ ep = NoEp

NextCancel ==
    \/ \E p \in Peers : Prepare(p)
    \/ \E p \in Peers : Dial(p)
    \/ \E p \in Peers : Accept(p)
    \/ \E p \in Peers : OpenStream(p)
    \/ \E p \in Peers : InitiatorSend(p)
    \/ \E p \in Peers : InitiatorRecv(p)
    \/ \E p \in Peers : ResponderRecv(p)
    \/ \E p \in Peers : ResponderSend(p)
    \/ \E p \in Peers : ReadHeader(p)
    \/ \E p \in Peers : SendOk(p)
    \/ \E p \in Peers : CreateDirAll(p)
    \/ \E p \in Peers : ChooseDest(p)
    \/ \E p \in Peers : ChooseTemp(p)
    \/ \E p \in Peers : CreateTemp(p)
    \/ \E p \in Peers : ReceiveChunk(p)
    \/ \E p \in Peers : FlushAndVerify(p)
    \/ \E p \in Peers : Rename(p)
    \/ \E p \in Peers : SendDone(p)
    \/ \E p \in Peers : Cleanup(p)
    \/ \E p \in Peers : Close(p)
    \/ \E p \in Peers : ConnectionLost(p)
    \/ \E p \in Peers : RemoteUploads(p)
    \/ \E p \in Peers : Abort(p)

SpecCancel == InitCancel /\ [][NextCancel]_vars

\* C11: once a receive session was aborted after it created its temp file,
\* its final destination holds no file that was not there before, and its
\* temp file is gone.
C11_AbortLeavesNoFiles ==
    \A p \in Peers :
        (Downloader(p) /\ pc[p] = "aborted" /\ rcv[p].created) =>
            /\ Exists(fs, rcv[p].dest) => Exists(fs0, rcv[p].dest)
            /\ ~Exists(fs, rcv[p].temp)

----------------------------------------------------------------------------
(* More properties of the host.                                            *)

\* The place in the log of the started Status of session s, 0 if none.
StartedAt(s) ==
    LET at == {i \in EventsOf(s, {"Status"}) : ctl.log[i].m = "Transfer started."}
    IN  IF at = {} THEN 0 ELSE CHOOSE i \in at : TRUE

Pushed == [i \in 1..Len(ctl.log) |-> [k |-> ctl.log[i].k, m |-> ctl.log[i].m]]

C13_WitnessEmpty ==
    ctl.host = "controller" /\ ctl.last = "nothing" /\ ctl.queue # <<>>

\* C14: the queue of the embedding is bounded: it never holds more
\* un-polled records than its capacity, whatever the sessions push and
\* however rarely the embedder polls.
C14_QueueIsBounded ==
    ctl.host = "controller" => Len(ctl.queue) <= QueueCapacity

----------------------------------------------------------------------------
(* Tickets in a run: a listener shows serialize(addr) of its node address; *)
(* the other side's user gives a target, which run_with_sink trims and     *)
(* tests with is_ticket and which run_iroh / send_to_ticket hand to        *)
(* deserialize.                                                            *)

\* "P2psh:", the prefix in mixed case.
MixedPrefix == <<80, 50, 112, 115, 104, 58>>

\* "127.0.0.1:9000"
PlainAddress == <<49, 50, 55, 46, 48, 46, 48, 46, 49, 58, 57, 48, 48, 48>>

\* The part of a ticket behind "p2psh:".
Payload(ticket) == SubSeq(ticket, Len(TICKET_PREFIX) + 2, Len(ticket))

\* What a user may give as the target: the ticket as shown, with white space
\* around it, with its prefix in upper or in mixed case, with its last
\* character lost, a plain ip:port address, or a ticket that was not made by
\* serialize and carries every direct address of the node.
Hows == {"exact", "padded", "upper", "mixed", "truncated", "address", "foreign"}

TargetOf(how, addr, ticket) ==
    CASE how = "exact" -> ticket
      [] how = "padded" -> <<32>> \o ticket \o <<10>>
      [] how = "upper" -> WithColon(to_uppercase(TICKET_PREFIX)) \o Payload(ticket)
      [] how = "mixed" -> MixedPrefix \o Payload(ticket)
      [] how = "truncated" -> SubSeq(ticket, 1, Len(ticket) - 1)
      [] how = "address" -> PlainAddress
      [] how = "foreign" -> WithColon(TICKET_PREFIX) \o base64url_encode(AddrJson(addr))

\* run_listen_with_sink, and run_with_sink of a sender without a sink: the
\* listener shows the ticket of its node address.
ShowTicket ==
    /\ tk.addr # NoAddr
    /\ tk.ticket = <<>>
    /\ tk' = [tk EXCEPT !.ticket = serialize(tk.addr)]
    /\ UNCHANGED <<SessionVars, ctl, fr, ep>>

\* The other side's user gives the target.
GiveTarget(how) ==
    /\ tk.ticket # <<>>
    /\ tk.how = "none"
    /\ tk' = [tk EXCEPT !.how = how, !.target = TargetOf(how, tk.addr, tk.ticket)]
    /\ UNCHANGED <<SessionVars, ctl, fr, ep>>

\* run_with_sink: is the trimmed target a ticket?
CheckTarget ==
    /\ tk.how # "none"
    /\ tk.is = "none"
    /\ tk' = [tk EXCEPT !.is = IF is_ticket(Trim(tk.target)) THEN "yes" ELSE "no"]
    /\ UNCHANGED <<SessionVars, ctl, fr, ep>>

\* run_iroh / send_to_ticket: deserialize the trimmed target.
Deserialize ==
    /\ tk.how # "none"
    /\ ~tk.out.done
    /\ tk' = [tk EXCEPT !.out = deserialize(Trim(tk.target))]
    /\ UNCHANGED <<SessionVars, ctl, fr, ep>>

InitTicket ==
    /\ linked = FALSE
    /\ flow = [p \in Peers |-> "remote"]
    /\ InitCommon
    /\ ctl = NoCtl
    /\ \E addr \in NodeAddrs : tk = [NoTk EXCEPT !.addr = addr]
    /\ fr = NoFr
    /\ ep = NoEp

NextTicket ==
    \/ ShowTicket
    \/ \E how \in Hows : GiveTarget(how)
    \/ CheckTarget
    \/ Deserialize

SpecTicket == InitTicket /\ [][NextTicket]_vars

\* The useful-address policy as the specification words it: not IPv4
\* loopback (127/8), 169.254/16 or 172.{16..31}.0.1; not IPv6 loopback (::1)
\* or fe80::/10 (fe80 .. febf in the first segment).
UsefulByPolicy(sa) ==
    IF sa.v = 4
    THEN /\ sa.ip[1] # 127
         /\ ~(sa.ip[1] = 169 /\ sa.ip[2] = 254)
         /\ ~(sa.ip[1] = 172 /\ sa.ip[2] \in 16..31 /\ sa.ip[3] = 0 /\ sa.ip[4] = 1)
    ELSE /\ sa.ip # <<0, 0, 0, 0, 0, 0, 0, 1>>
         /\ sa.ip[1] \notin 65152..65215

UsefulOf(addr) == {sa \in addr.direct_addresses : UsefulByPolicy(sa)}

Reachable(addr) == addr.relay_url # NoRelay \/ UsefulOf(addr) # {}

\* deserialize(serialize(addr)) is Ok with addr's node id and relay URL and
\* the useful ones of its direct addresses.
RoundTripOk ==
    /\ tk.out.ok
    /\ tk.out.addr.node_id = tk.addr.node_id
    /\ tk.out.addr.relay_url = tk.addr.relay_url
    /\ tk.out.addr.direct_addresses = UsefulOf(tk.addr)

\* C15, as the specification states it: for every node address addr,
\* deserialize(serialize(addr)) succeeds, with the same node_id and relay_url
\* and with exactly the useful direct addresses of addr.
C15_RoundTripAlways ==
    (tk.how = "exact" /\ tk.out.done) => RoundTripOk

\* C15, corrected: for every node address addr that has a relay URL or at
\* least one useful direct address, deserialize(serialize(addr)) succeeds
\* with the same node_id and relay_url and exactly the useful direct
\* addresses of addr; for an addr with neither, deserialize rejects the
\* ticket that serialize made.
C15_RoundTripWhenReachable ==
    (tk.how = "exact" /\ tk.out.done) =>
        IF Reachable(tk.addr) THEN RoundTripOk ELSE ~tk.out.ok

\* A round trip that dropped an address and kept another.
C15_Witness ==
    /\ tk.how = "exact"
    /\ tk.out.done
    /\ tk.out.ok
    /\ tk.out.addr.direct_addresses # {}
    /\ tk.out.addr.direct_addresses # tk.addr.direct_addresses

\* C16: deserialize rejects a ticket whose address has no relay URL and no
\* useful direct address; every address it returns has a relay URL or at
\* least one useful direct address.
C16_DeserializeRejectsUnreachable ==
    (tk.out.done /\ tk.out.ok) => Reachable(tk.out.addr)

\* s starts with "p2psh:" in any mix of upper and lower case.
HasPrefixAnyCase(s) ==
    LET p == WithColon(TICKET_PREFIX)
    IN  /\ Len(s) >= Len(p)
        /\ \A i \in 1..Len(p) : s[i] = p[i] \/ (p[i] \in 97..122 /\ s[i] = p[i] - 32)

\* C17: is_ticket(s) is true exactly when the trimmed s starts with "p2psh:"
\* in any mix of upper and lower case.
C17_IsTicketAnyCase ==
    tk.is # "none" => (tk.is = "yes" <=> HasPrefixAnyCase(Trim(tk.target)))

----------------------------------------------------------------------------
(* The CLI in --json mode: the log is what was written to standard output  *)
(* and flushed, line by line.                                              *)

\* The error records on standard output.
ErrorRecords == {i \in 1..Len(ctl.log) : ctl.log[i].k = "Error"}

\* C18: in --json mode the first record is the Status "Transfer started.";
\* when the command fails, one error record with code transfer_error, and
\* no other, is on standard output when the process exits with status 1;
\* the exit status is 0 exactly when the session ended with Completed.
C18_JsonModeRecordsAndExit ==
    ctl.host = "cli" =>
        /\ ctl.log # <<>> => ctl.log[1] = [s |-> 1, k |-> "Status", m |-> "Transfer started."]
        /\ ctl.exit # -1 <=> Ended(1)
        /\ ctl.sess[1].st = "err" =>
              /\ ctl.exit = 1
              /\ Cardinality(ErrorRecords) = 1
              /\ \A i \in ErrorRecords : ctl.log[i].m = "transfer_error"
        /\ ctl.exit = 0 <=> (Ended(1) /\ EventsOf(1, {"Completed"}) # {})
        /\ ctl.exit # 1 => ErrorRecords = {}

\* receive with neither a target nor --qr: the start and the error, status 1.
C18_Witness ==
    /\ ctl.host = "cli"
    /\ ctl.exit = 1
    /\ Len(ctl.log) = 2
    /\ ctl.log[2].k = "Error"

\* A command that succeeded: status 0 after Completed.
C18_WitnessOk ==
    /\ ctl.host = "cli"
    /\ ctl.exit = 0
    /\ EventsOf(1, {"Completed"}) # {}

----------------------------------------------------------------------------
(* A receive that fails in the verification or on a short stream.          *)

\* The receive of peer p failed, and the host has made its Error record.
ReceiveFailed(p) == Downloader(p) /\ pc[p] = "err"

\* Neither the final file nor the temp file is there.
NoFilesOf(p) == ~Exists(fs, rcv[p].dest) /\ ~Exists(fs, rcv[p].temp)

\* C19: when a receive fails because the digest of the received bytes
\* differs from header.blake3, the Error event carries the code
\* checksum_mismatch, and neither the final file nor the temp file exists
\* afterwards.
C19_ChecksumMismatchCode ==
    \A p \in Peers :
        (ReceiveFailed(p) /\ err[p] = "Checksum mismatch!") =>
            /\ error_code(err[p]) = "checksum_mismatch"
            /\ NoFilesOf(p)

\* A foreign sender stops before the announced size: it sends a frame of
\* length zero, or the frame of an empty plaintext.
RemoteCutsShort(p) ==
    /\ ~linked /\ Local(p)
    /\ conn[p].up /\ wopen[p] /\ wire[p] = <<>>
    /\ feeds[p] < MaxFeeds
    /\ noise[p].done /\ pc[p] = "rf_loop" /\ rcv[p].received < hdr[p].size
    /\ feeds' = [feeds EXCEPT ![p] = @ + 1]
    /\ \E frame \in {ZeroLengthFrame, write_message(noise[p].k, noise[p].nr, <<>>)} :
         wire' = [wire EXCEPT ![p] = <<frame>>]
    /\ UNCHANGED <<ep, fr, tk, ctl, linked, flow, pc, conn, setup, noise, wopen, tampered, src, hdr, fs, fs0, rcv, snd, ev, err>>

\* One receive from a foreign sender that may stop early.
NextShort ==
    \/ \E p \in Peers : Prepare(p)
    \/ \E p \in Peers : Dial(p)
    \/ \E p \in Peers : Accept(p)
    \/ \E p \in Peers : OpenStream(p)
    \/ \E p \in Peers : InitiatorSend(p)
    \/ \E p \in Peers : InitiatorRecv(p)
    \/ \E p \in Peers : ResponderRecv(p)
    \/ \E p \in Peers : ResponderSend(p)
    \/ \E p \in Peers : ReadHeader(p)
    \/ \E p \in Peers : SendOk(p)
    \/ \E p \in Peers : CreateDirAll(p)
    \/ \E p \in Peers : ChooseDest(p)
    \/ \E p \in Peers : ChooseTemp(p)
    \/ \E p \in Peers : CreateTemp(p)
    \/ \E p \in Peers : ReceiveChunk(p)
    \/ \E p \in Peers : FlushAndVerify(p)
    \/ \E p \in Peers : Rename(p)
    \/ \E p \in Peers : SendDone(p)
    \/ \E p \in Peers : Cleanup(p)
    \/ \E p \in Peers : Close(p)
    \/ \E p \in Peers : RemoteUploads(p)
    \/ \E p \in Peers : RemoteCutsShort(p)
    \/ \E p \in Peers : RemoteFinishes(p)

SpecShort == InitCancel /\ [][NextShort]_vars

\* C20: if the sender's stream ends, or a zero-length frame arrives, after
\* fewer than header.size bytes were received, the receiver fails with the
\* error of the incomplete transfer, not with a frame-read or decryption
\* error, and the temp file is absent afterwards.
C20_ShortStreamIsIncompleteTransfer ==
    \A p \in Peers :
        (/\ ReceiveFailed(p)
         /\ rcv[p].last \in {"end of stream", "zero-length frame"}
         /\ rcv[p].received < hdr[p].size) =>
            /\ err[p] = "Incomplete transfer"
            /\ ~Exists(fs, rcv[p].temp)

----------------------------------------------------------------------------
(* unique_path, as receive_file uses it for the final destination.         *)

\* The path was in the output directory before the session.
WasThere(path) == path \in DOMAIN fs0.dir

\* The numbered candidates below k all existed, the k-th did not.
SmallestFree(name, k) ==
    /\ ~WasThere(Join(OutputDir, Numbered(name, k)))
    /\ \A j \in 1..(k - 1) : WasThere(Join(OutputDir, Numbered(name, j)))

\* C21: unique_path(dir, name) is dir/name when that path does not exist,
\* and otherwise dir/"stem (k)ext" for the smallest k >= 1 whose path does
\* not exist; it never names an existing file, and the files that were in
\* the directory before the receive are still there, unchanged.
C21_UniquePathSparesOldFiles ==
    \A p \in Peers :
        Downloader(p) =>
            /\ rcv[p].dest # <<>> =>
                  /\ ~WasThere(rcv[p].dest)
                  /\ IF ~WasThere(Join(OutputDir, hdr[p].name))
                     THEN rcv[p].dest = Join(OutputDir, hdr[p].name)
                     ELSE \E k \in 1..(Len(OldPaths) + 1) :
                            /\ rcv[p].dest = Join(OutputDir, Numbered(hdr[p].name, k))
                            /\ SmallestFree(hdr[p].name, k)
            /\ \A path \in DOMAIN fs0.dir :
                  Exists(fs, path) /\ FileAt(fs, path) = FileAt(fs0, path)

\* A receive into a directory that held a.t and a (1).t ended well at
\* a (2).t.
C21_Witness ==
    \E p \in Peers :
        /\ Downloader(p) /\ pc[p] = "ok"
        /\ WasThere(Join(OutputDir, hdr[p].name))
        /\ WasThere(Join(OutputDir, Numbered(hdr[p].name, 1)))
        /\ rcv[p].dest = Join(OutputDir, Numbered(hdr[p].name, 2))
        /\ Exists(fs, rcv[p].dest)

----------------------------------------------------------------------------
(* Frames on a stream: a writer calls send_frame, a foreign writer may put *)
(* a length prefix of its own, a reader calls recv_frame.                  *)

\* At most this many frames are written in a run.
MaxFrames == 2

\* The lengths of the data: none, short, and around the limit.
FrameLens == {0, 1, 2, NOISE_MAX_MSG, NOISE_MAX_MSG + 1}

\* The data given to send_frame: every byte 0, or every byte 255.
Payloads == {[i \in 1..n |-> b] : n \in FrameLens, b \in {0, 255}}

\* Lengths a foreign writer may declare: just above the limit, 2^24, 2^31-1.
ForeignLens == {NOISE_MAX_MSG + 1, 16777216, 2147483647}

\* The reader has not failed: the stream is still in use.
Reading == \A i \in 1..Len(fr.got) : fr.got[i].ok

\* send_frame(writer, data)
SendFrame(data) ==
    /\ Len(fr.sent) < MaxFrames
    /\ Reading
    /\ LET r == send_frame(data)
       IN  fr' = [fr EXCEPT !.stream = @ \o r.bytes,
                            !.sent = Append(@, [data |-> data, ok |-> r.ok,
                                                wrote |-> Len(r.bytes), foreign |-> FALSE])]
    /\ UNCHANGED <<SessionVars, ctl, tk, ep>>

\* A writer that is not this program declares a length over the limit and
\* writes two bytes of data.
ForeignFrame(len) ==
    /\ Len(fr.sent) < MaxFrames
    /\ Reading
    /\ fr' = [fr EXCEPT !.stream = @ \o to_be_bytes(len) \o <<7, 7>>,
                        !.sent = Append(@, [data |-> <<7, 7>>, ok |-> TRUE,
                                            wrote |-> 6, foreign |-> TRUE])]
    /\ UNCHANGED <<SessionVars, ctl, tk, ep>>

\* recv_frame(reader), once a frame was written for it.
RecvFrame ==
    /\ Reading
    /\ Len(fr.got) < Cardinality({i \in 1..Len(fr.sent) : fr.sent[i].ok})
    /\ LET r == recv_frame(SubSeq(fr.stream, fr.pos + 1, Len(fr.stream)))
       IN  fr' = [fr EXCEPT !.pos = @ + r.read, !.got = Append(@, r)]
    /\ UNCHANGED <<SessionVars, ctl, tk, ep>>

InitFrame ==
    /\ linked = FALSE
    /\ flow = [p \in Peers |-> "remote"]
    /\ InitCommon
    /\ ctl = NoCtl
    /\ tk = NoTk
    /\ fr = NoFr
    /\ ep = NoEp

NextFrame ==
    \/ \E data \in Payloads : SendFrame(data)
    \/ \E len \in ForeignLens : ForeignFrame(len)
    \/ RecvFrame

SpecFrame == InitFrame /\ [][NextFrame]_vars

\* The frames that went onto the stream, in order.
Written == SelectSeq(fr.sent, LAMBDA s : s.ok)

\* C22: send_frame fails without writing a byte when the data is longer than
\* 65,535 bytes and succeeds for every length up to it; recv_frame fails
\* without reading the data when the length prefix is over 65,535, and
\* otherwise returns exactly the data that send_frame wrote.
C22_FrameLimitAndRoundTrip ==
    /\ \A i \in 1..Len(fr.sent) :
          ~fr.sent[i].foreign =>
              /\ fr.sent[i].ok <=> Len(fr.sent[i].data) <= 65535
              /\ ~fr.sent[i].ok => fr.sent[i].wrote = 0
              /\ fr.sent[i].ok => fr.sent[i].wrote = 4 + Len(fr.sent[i].data)
    /\ \A j \in 1..Len(fr.got) :
          IF Written[j].foreign
          THEN ~fr.got[j].ok /\ fr.got[j].read = 4
          ELSE fr.got[j].ok /\ fr.got[j].buf = Written[j].data

\* A frame of 65,535 bytes was read back, and data of 65,536 bytes refused.
C22_Witness ==
    /\ \E j \in 1..Len(fr.got) : fr.got[j].ok /\ Len(fr.got[j].buf) = 65535
    /\ \E i \in 1..Len(fr.sent) : ~fr.sent[i].ok /\ Len(fr.sent[i].data) = 65536

\* A frame of two bytes was written and read back, and after it a length
\* prefix over the limit was refused with nothing of its payload read.
C22_WitnessPrefix ==
    /\ Len(fr.got) = 2 /\ Len(fr.sent) = 2
    /\ fr.got[1].ok /\ fr.got[1].buf = fr.sent[1].data /\ Len(fr.got[1].buf) = 2
    /\ fr.got[2].why = "frame too large"
    /\ fr.pos = Len(fr.stream) - 2

----------------------------------------------------------------------------
(* The order of the protocol's messages.                                   *)

\* The transport messages in flight to p, written by the other peer.
TransportFrames(p) == {i \in 1..Len(wire[p]) : ~wire[p][i].hs}

\* C23: no peer writes or reads a transport message before its own
\* handshake has completed; the first transport message of a session is the
\* uploader's FileHeader: the uploader reads nothing before it has written
\* it, the downloader writes nothing before it has read a header.
C23_HandshakeThenHeaderFirst ==
    \A p \in Peers :
        Local(p) =>
            /\ (noise[p].ns > 0 \/ noise[p].nr > 0) => noise[p].done
            /\ (Uploader(p) /\ noise[p].nr > 0) => noise[p].ns > 0
            /\ (Downloader(p) /\ noise[p].ns > 0) => (noise[p].nr > 0 /\ hdr[p] # NoHeader)
            /\ linked =>
                  \A i \in TransportFrames(p) :
                      /\ noise[Other(p)].done
                      /\ (wire[p][i].n = 0 /\ Uploader(Other(p))) =>
                            read_message(wire[p][i].k, 0, wire[p][i]).plaintext
                                = to_wire(hdr[Other(p)])

\* Two linked peers: the header was read and acknowledged, and the
\* acknowledgement is in flight to the uploader.
C23_Witness ==
    /\ linked
    /\ \E p \in Peers :
         /\ Uploader(p) /\ Downloader(Other(p))
         /\ noise[p].ns = 1 /\ noise[p].nr = 0
         /\ noise[Other(p)].nr = 1 /\ noise[Other(p)].ns = 1
         /\ TransportFrames(p) # {}

\* The data frames an uploader has written: its transport messages but the
\* header (finish() writes no frame).
DataFramesOf(p) == IF noise[p].ns > 1 THEN noise[p].ns - 1 ELSE 0

C24_WitnessOk ==
    \E p \in Peers : Uploader(p) /\ snd[p].acked /\ DataFramesOf(p) > 0

\* The receiver has written DONE: its second transport message.
SentDone(p) == Downloader(p) /\ noise[p].ns >= 2

\* The file at the receiver's final path is the one the header announced.
VerifiedAtDest(p) ==
    /\ Exists(fs, rcv[p].dest)
    /\ Len(FileAt(fs, rcv[p].dest)) = hdr[p].size
    /\ Blake3Hex(FileAt(fs, rcv[p].dest)) = hdr[p].blake3

\* C25: the receiver writes DONE only after the flush, with the byte count
\* equal to header.size, the digest equal to header.blake3 and the temp file
\* renamed to the final destination; so when a sender of this program
\* reports Completed to a receiver of this program, the verified file is at
\* the receiver's final path.
C25_DoneAfterRename ==
    \A p \in Peers :
        /\ SentDone(p) =>
              /\ rcv[p].verified
              /\ rcv[p].received = hdr[p].size
              /\ hasher_finalize_hex(rcv[p].hasher) = hdr[p].blake3
              /\ VerifiedAtDest(p)
              /\ ~Exists(fs, rcv[p].temp)
        /\ (linked /\ Uploader(p) /\ Downloader(Other(p)) /\ HasEvent(p, "Completed")) =>
              /\ SentDone(Other(p))
              /\ VerifiedAtDest(Other(p))
              /\ hdr[Other(p)] = hdr[p]

\* A sender of this program reported Completed for a file of two bytes.
C25_Witness ==
    \E p \in Peers :
        /\ linked /\ Uploader(p) /\ HasEvent(p, "Completed")
        /\ hdr[p].size = 2
        /\ VerifiedAtDest(Other(p))

\* The receiver has written the OK acknowledgement: its first transport
\* message.
SentOk(p) == Downloader(p) /\ noise[p].ns >= 1

\* C26: the receiver writes OK only after the output directory was ensured
\* and the final and temp paths were computed; a receiver that cannot create
\* its output directory never acknowledges the header.
C26_OkAfterPaths ==
    \A p \in Peers :
        /\ SentOk(p) => (rcv[p].dest # <<>> /\ rcv[p].temp # <<>>)
        /\ (Downloader(p) /\ err[p] = "cannot create output directory") => ~SentOk(p)

----------------------------------------------------------------------------
(* A send whose local file changes while the session runs.                 *)

\* One sender of this program against a foreign receiver.
InitDrift ==
    /\ linked = FALSE
    /\ \E p \in Peers :
         flow = [q \in Peers |-> IF q # p THEN "remote"
                                 ELSE IF p = "L" THEN "send_listen" ELSE "send_to_ticket"]
    /\ InitCommon
    /\ ctl = NoCtl
    /\ tk = NoTk
    /\ fr = NoFr
    /\ ep = NoEp

\* Another program rewrites the local file after prepare_file measured it
\* and before the send loop has read its end: it shrinks, grows or keeps its
\* length with other bytes.
FileChanges(p) ==
    /\ Uploader(p)
    /\ pc[p] \in {"connect", "stream", "handshake", "handshake_reply", "sf_header",
                  "sf_ack", "sf_open", "sf_loop"}
    /\ hdr[p] # NoHeader
    /\ \E data \in Contents \ {src.data} : src' = [src EXCEPT !.data = data]
    /\ UNCHANGED <<ep, fr, tk, ctl, linked, flow, pc, conn, setup, noise, wire, wopen, tampered, hdr, fs, fs0, rcv, snd, ev, err, feeds>>

NextDrift ==
    \/ \E p \in Peers : Prepare(p)
    \/ \E p \in Peers : Dial(p)
    \/ \E p \in Peers : Accept(p)
    \/ \E p \in Peers : OpenStream(p)
    \/ \E p \in Peers : InitiatorSend(p)
    \/ \E p \in Peers : InitiatorRecv(p)
    \/ \E p \in Peers : ResponderRecv(p)
    \/ \E p \in Peers : ResponderSend(p)
    \/ \E p \in Peers : SendHeader(p)
    \/ \E p \in Peers : ReadAck(p)
    \/ \E p \in Peers : OpenFile(p)
    \/ \E p \in Peers : SendChunk(p)
    \/ \E p \in Peers : SendEnd(p)
    \/ \E p \in Peers : Finish(p)
    \/ \E p \in Peers : wait_for_done(p)
    \/ \E p \in Peers : Close(p)
    \/ \E p \in Peers : FileChanges(p)
    \/ \E p \in Peers : RemoteSends(p)
    \/ \E p \in Peers : RemoteFinishes(p)

SpecDrift == InitDrift /\ [][NextDrift]_vars

\* C27: a sender whose streamed byte count differs from the size it declared
\* fails with the local-file-changed error, having neither finished its
\* stream nor waited for DONE, and without Completed; a sender that finished
\* its stream streamed exactly the declared size.
C27_SizeDriftFails ==
    \A p \in Peers : Uploader(p) =>
        /\ err[p] = LocalFileChanged =>
              /\ snd[p].sent # hdr[p].size
              /\ ~snd[p].finished
              /\ snd[p].tail = "none"
              /\ ~HasEvent(p, "Completed")
        /\ (snd[p].finished \/ HasEvent(p, "Completed")) => snd[p].sent = hdr[p].size
        /\ (pc[p] = "err" /\ snd[p].opened /\ snd[p].sent # hdr[p].size) =>
              err[p] \in {LocalFileChanged, "write failed"}

\* The file shrank: the sender streamed less than it declared and failed.
C27_Witness ==
    \E p \in Peers :
        /\ Uploader(p) /\ err[p] = LocalFileChanged
        /\ snd[p].sent < hdr[p].size /\ snd[p].sent > 0

\* The file grew: the sender streamed more than it declared and failed.
C27_WitnessGrew ==
    \E p \in Peers :
        /\ Uploader(p) /\ err[p] = LocalFileChanged
        /\ snd[p].sent > hdr[p].size

----------------------------------------------------------------------------
(* The watcher at the end of a session.                                    *)

\* The log holds an Error record of session s and, after it, a
\* ConnectionPath record of the same session.
PathAfterError(s) ==
    \E i, j \in 1..Len(ctl.log) :
        /\ i < j
        /\ ctl.log[i].s = s /\ ctl.log[i].k = "Error"
        /\ ctl.log[j].s = s /\ ctl.log[j].k = "ConnectionPath"

\* C28: on every exit path of a connected session, failure as well as
\* success, the path watcher is aborted: a session whose driver has returned
\* has no running watcher, and no ConnectionPath record of a session follows
\* its Error record.
C28_WatcherStoppedOnEveryExit ==
    \A s \in Sessions :
        /\ ctl.sess[s].st \in {"ok", "err"} => ctl.sess[s].w # "watching"
        /\ ~PathAfterError(s)

----------------------------------------------------------------------------
(* A reverse sender dials its receiver.                                    *)

InitDial ==
    /\ linked = FALSE
    /\ flow = [p \in Peers |-> "remote"]
    /\ InitCommon
    /\ ctl = NoCtl
    /\ tk = NoTk
    /\ fr = NoFr
    /\ \E sink \in BOOLEAN, addr \in NodeAddrs :
         ep = [NoEp EXCEPT !.mode = "reverse", !.sink = sink, !.addr = addr, !.pc = "dial"]

\* ep.connect(a, ALPN_REVERSE) comes back: connected or not.
DialOutcomes == {"connected", "failed"}

\* The first dial of connect_reverse_relay_first, at the relay-only address.
\* A failure leads on to the fallback.
DialRelayOnly ==
    /\ ep.mode = "reverse" /\ ep.pc = "dial"
    /\ relay_first(ep.sink, ep.addr)
    /\ \E out \in DialOutcomes :
         ep' = [ep EXCEPT !.tried = Append(@, [addr |-> relay_only(ep.addr), out |-> out]),
                          !.pc = IF out = "connected" THEN "connected" ELSE "fallback"]
    /\ UNCHANGED <<SessionVars, ctl, tk, fr>>

\* The dial at the full address: the only one of a sender without a sink or
\* of a ticket without a relay URL, the fallback of the others.  Its failure
\* is the session's.
DialFull ==
    /\ ep.mode = "reverse"
    /\ \/ ep.pc = "fallback"
       \/ ep.pc = "dial" /\ ~relay_first(ep.sink, ep.addr)
    /\ \E out \in DialOutcomes :
         ep' = [ep EXCEPT !.tried = Append(@, [addr |-> ep.addr, out |-> out]),
                          !.pc = IF out = "connected" THEN "connected" ELSE "err",
                          !.why = IF out = "connected" THEN @
                                  ELSE "failed to connect to receiver"]
    /\ UNCHANGED <<SessionVars, ctl, tk, fr>>

NextDial ==
    \/ DialRelayOnly
    \/ DialFull

SpecDial == InitDial /\ [][NextDial]_vars

\* The latest dial.
LastDial == ep.tried[Len(ep.tried)]

\* C29: a reverse sender with a sink and a ticket with a relay URL dials the
\* relay-only address first and the full address only after that dial
\* failed, never more than twice; without a sink or without a relay URL it
\* dials the full address once; and the session fails with the dial error
\* only when its last dial failed.
C29_RelayFirstThenFull ==
    ep.mode = "reverse" =>
        /\ Len(ep.tried) <= 2
        /\ IF ep.sink /\ ep.addr.relay_url # NoRelay
           THEN /\ Len(ep.tried) >= 1 => ep.tried[1].addr = relay_only(ep.addr)
                /\ Len(ep.tried) = 2 =>
                      /\ ep.tried[1].out = "failed"
                      /\ ep.tried[2].addr = ep.addr
                /\ ep.pc = "err" => Len(ep.tried) = 2
           ELSE /\ Len(ep.tried) <= 1
                /\ Len(ep.tried) = 1 => ep.tried[1].addr = ep.addr
        /\ ep.pc = "err" <=>
              /\ ep.tried # <<>>
              /\ LastDial.out = "failed"
              /\ LastDial.addr = ep.addr
              /\ (ep.sink /\ ep.addr.relay_url # NoRelay) => Len(ep.tried) = 2
        /\ ep.pc = "connected" <=> (ep.tried # <<>> /\ LastDial.out = "connected")
        /\ ep.pc = "err" <=> ep.why = "failed to connect to receiver"

\* The relay-only dial failed and the dial at the full address, which has a
\* direct address more, connected.
C29_Witness ==
    /\ ep.mode = "reverse" /\ ep.pc = "connected"
    /\ Len(ep.tried) = 2
    /\ ep.tried[1].addr # ep.tried[2].addr

\* Both dials failed.
C29_WitnessFailed ==
    /\ ep.mode = "reverse" /\ ep.pc = "err"
    /\ Len(ep.tried) = 2

----------------------------------------------------------------------------
(* A listening sender publishes its ticket.                                *)

InitAdvert ==
    /\ linked = FALSE
    /\ flow = [p \in Peers |-> "remote"]
    /\ InitCommon
    /\ ctl = NoCtl
    /\ tk = NoTk
    /\ fr = NoFr
    /\ \E sink \in BOOLEAN, addr \in NodeAddrs :
         ep = [NoEp EXCEPT !.mode = "listen", !.sink = sink, !.addr = addr, !.pc = "node_addr"]

\* emit(sink, event): the event reaches the sink, if there is one.
Emitted(events, sink, kind, text) ==
    IF sink THEN Append(events, [k |-> kind, text |-> text]) ELSE events

\* run_with_sink: the endpoint's address is there; the advertised address
\* is made of it, with the status that announces a relay-only ticket, and
\* serialized.
MakeTicket ==
    /\ ep.mode = "listen" /\ ep.pc = "node_addr"
    /\ LET ticket_str == serialize(advertised_addr(ep.sink, ep.addr))
           announced == IF ep.sink /\ ep.addr.relay_url # NoRelay
                        THEN Emitted(ep.events, ep.sink, "Status", <<>>)
                        ELSE ep.events
       IN  ep' = [ep EXCEPT !.ticket = ticket_str, !.events = announced, !.pc = "emit_ticket"]
    /\ UNCHANGED <<SessionVars, ctl, tk, fr>>

\* emit(Ticket(ticket_str))
EmitTicket ==
    /\ ep.mode \in {"listen", "receive_listen"} /\ ep.pc = "emit_ticket"
    /\ ep' = [ep EXCEPT !.events = Emitted(@, ep.sink, "Ticket", ep.ticket), !.pc = "emit_qr"]
    /\ UNCHANGED <<SessionVars, ctl, tk, fr>>

\* emit(QrPayload(ticket_str)), and the ticket is printed.
EmitQrPayload ==
    /\ ep.mode \in {"listen", "receive_listen"} /\ ep.pc = "emit_qr"
    /\ ep' = [ep EXCEPT !.events = Emitted(@, ep.sink, "QrPayload", ep.ticket), !.pc = "waiting"]
    /\ UNCHANGED <<SessionVars, ctl, tk, fr>>

NextAdvert ==
    \/ MakeTicket
    \/ EmitTicket
    \/ EmitQrPayload

SpecAdvert == InitAdvert /\ [][NextAdvert]_vars

\* The node address a ticket string carries: its payload decoded and parsed.
Carried(ticket) ==
    from_slice(base64url_decode(strip_prefix(ticket, WithColon(TICKET_PREFIX)).rest).bytes)

\* The texts of the events of a kind the sink got.
TextsOf(kind) == {ep.events[i].text : i \in {j \in 1..Len(ep.events) : ep.events[j].k = kind}}

\* Node id and relay URL of the published ticket are the endpoint's, and the
\* Ticket and QrPayload events carry the string published.
SameNodeAndEvents(carried) ==
    /\ carried.ok
    /\ carried.addr.node_id = ep.addr.node_id
    /\ carried.addr.relay_url = ep.addr.relay_url
    /\ TextsOf("Ticket") \subseteq {ep.ticket}
    /\ TextsOf("QrPayload") \subseteq {ep.ticket}
    /\ ep.pc = "waiting" =>
          /\ TextsOf("Ticket") = (IF ep.sink THEN {ep.ticket} ELSE {})
          /\ TextsOf("QrPayload") = TextsOf("Ticket")

\* C30, as the specification states it: the published ticket has empty
\* direct_addresses exactly when a sink is attached and the endpoint's
\* address has a relay URL, and otherwise the useful ones of the endpoint's
\* direct addresses; node id and relay URL are the endpoint's; Ticket and
\* QrPayload carry the same string.
C30_RelayOnlyExactlyWithSinkAndRelay ==
    (ep.mode = "listen" /\ ep.ticket # <<>>) =>
        LET carried == Carried(ep.ticket)
        IN  /\ carried.addr.direct_addresses = {}
                  <=> (ep.sink /\ ep.addr.relay_url # NoRelay)
            /\ ~(ep.sink /\ ep.addr.relay_url # NoRelay) =>
                  carried.addr.direct_addresses = UsefulOf(ep.addr)
            /\ SameNodeAndEvents(carried)

\* C30, corrected: when a sink is attached and the endpoint's address has a
\* relay URL the published ticket has empty direct_addresses; otherwise it
\* carries the useful ones of the endpoint's direct addresses, which are
\* none when the endpoint has no useful direct address; node id and relay
\* URL are the endpoint's; Ticket and QrPayload carry the same string.
C30_RelayOnlyWithSinkAndRelay ==
    (ep.mode = "listen" /\ ep.ticket # <<>>) =>
        LET carried == Carried(ep.ticket)
        IN  /\ carried.addr.direct_addresses =
                  (IF ep.sink /\ ep.addr.relay_url # NoRelay THEN {} ELSE UsefulOf(ep.addr))
            /\ SameNodeAndEvents(carried)

\* A sink and a relay URL: the endpoint's useful direct address is left out
\* of the ticket that both events carry.
C30_Witness ==
    /\ ep.mode = "listen" /\ ep.pc = "waiting"
    /\ ep.sink /\ ep.addr.relay_url # NoRelay
    /\ UsefulOf(ep.addr) # {}
    /\ Carried(ep.ticket).addr.direct_addresses = {}
    /\ TextsOf("Ticket") = {ep.ticket} /\ TextsOf("QrPayload") = {ep.ticket}

\* No sink: a useful direct address is in the ticket, another is dropped.
C30_WitnessFull ==
    /\ ep.mode = "listen" /\ ep.pc = "waiting"
    /\ ~ep.sink /\ ep.addr.relay_url # NoRelay
    /\ Carried(ep.ticket).addr.direct_addresses # {}
    /\ Carried(ep.ticket).addr.direct_addresses # ep.addr.direct_addresses

----------------------------------------------------------------------------
(* A listener sets up: relay, ticket, accept.                              *)

\* A listening sender ("listen") or a listening receiver, at the wait for
\* its home relay.
InitListen ==
    /\ linked = FALSE
    /\ flow = [p \in Peers |-> "remote"]
    /\ InitCommon
    /\ ctl = NoCtl
    /\ tk = NoTk
    /\ fr = NoFr
    /\ \E mode \in {"listen", "receive_listen"}, sink \in BOOLEAN, addr \in NodeAddrs :
         ep = [NoEp EXCEPT !.mode = mode, !.sink = sink, !.addr = addr, !.pc = "relay"]

\* tokio::time::timeout(10 s, home_relay().initialized()): the relay is
\* there in time, or the timeout elapses first.
RelayOutcomes == {"ready", "timeout"}

\* A listener for which the relay's timeout is an error.
after_relay_fatal(outcome) == IF outcome = "timeout" THEN "err" ELSE "node_addr"
\* match &relay_timeout: both arms go on to the node address.
after_relay(outcome) == "node_addr"

\* The statuses of the two arms.
RelayStatuses(outcome) ==
    IF outcome = "ready" THEN <<"Relay connected">>
    ELSE <<"Warning: could not connect to relay (timed out).",
           "Only direct/LAN connections will work.">>

RECURSIVE EmittedAll(_, _, _, _)
EmittedAll(events, sink, kind, texts) ==
    IF texts = <<>> THEN events
    ELSE EmittedAll(Emitted(events, sink, kind, Head(texts)), sink, kind, Tail(texts))

\* The wait for the relay ends, one way or the other.
AwaitRelay ==
    /\ ep.mode \in {"listen", "receive_listen"} /\ ep.pc = "relay"
    /\ \E outcome \in RelayOutcomes :
         ep' = [ep EXCEPT !.relay = outcome,
                          !.events = EmittedAll(@, ep.sink, "Status", RelayStatuses(outcome)),
                          !.pc = after_relay(outcome),
                          !.why = IF after_relay(outcome) = "err" THEN "relay timed out" ELSE @]
    /\ UNCHANGED <<SessionVars, ctl, tk, fr>>

\* run_listen_with_sink: the ticket of the endpoint's address.
ListenTicket ==
    /\ ep.mode = "receive_listen" /\ ep.pc = "node_addr"
    /\ ep' = [ep EXCEPT !.ticket = serialize(ep.addr), !.pc = "emit_ticket"]
    /\ UNCHANGED <<SessionVars, ctl, tk, fr>>

\* The ticket is printed, the waiting status emitted and ep.accept() awaited.
WaitForPeer ==
    /\ ep.mode \in {"listen", "receive_listen"} /\ ep.pc = "waiting"
    /\ ep' = [ep EXCEPT !.events = Emitted(@, ep.sink, "Status", "Waiting to connect..."),
                        !.pc = "accept"]
    /\ UNCHANGED <<SessionVars, ctl, tk, fr>>

NextListen ==
    \/ AwaitRelay
    \/ MakeTicket
    \/ ListenTicket
    \/ EmitTicket
    \/ EmitQrPayload
    \/ WaitForPeer

SpecListen == InitListen /\ [][NextListen]_vars

\* The events of a kind the sink got.
EpEventsOf(kind) == {i \in 1..Len(ep.events) : ep.events[i].k = kind}

\* C31: a listener whose relay was not ready within the timeout emits the
\* warning statuses and no Error, is not ended by it, publishes its ticket
\* and goes on to accept.
C31_RelayTimeoutIsAWarning ==
    (ep.mode \in {"listen", "receive_listen"} /\ ep.relay = "timeout") =>
        /\ ep.pc \in {"node_addr", "emit_ticket", "emit_qr", "waiting", "accept"}
        /\ ep.why = ""
        /\ EpEventsOf("Error") = {}
        /\ ep.sink =>
              \E i \in 1..(Len(ep.events) - 1) :
                  /\ ep.events[i] = [k |-> "Status",
                                     text |-> "Warning: could not connect to relay (timed out)."]
                  /\ ep.events[i + 1] = [k |-> "Status",
                                         text |-> "Only direct/LAN connections will work."]
        /\ ep.pc \in {"emit_ticket", "emit_qr", "waiting", "accept"} => ep.ticket # <<>>
        /\ (ep.pc = "accept" /\ ep.sink) =>
              (EpEventsOf("Ticket") # {} /\ EpEventsOf("QrPayload") # {})

\* After a timeout a listening receiver with a sink published its ticket and
\* waits for its peer.
C31_Witness ==
    /\ ep.mode = "receive_listen" /\ ep.relay = "timeout" /\ ep.sink
    /\ ep.pc = "accept"
    /\ EpEventsOf("Ticket") # {}

\* The same of a listening sender.
C31_WitnessSender ==
    /\ ep.mode = "listen" /\ ep.relay = "timeout"
    /\ ep.pc = "accept" /\ ep.ticket # <<>>

----------------------------------------------------------------------------
(* A receive from a sender that names its file as it likes.                *)

\* The headers of such a sender: a hostile name, a true size and digest.
HostileHeaders ==
    {[name |-> nm, size |-> n, blake3 |-> Blake3Hex(Ones(n))] :
        nm \in HostileNames, n \in 0..MaxFileLen}

\* The foreign sender: its handshake message, a header with a name of its
\* choice, then the data it announced.
RemoteNames(p) ==
    /\ ~linked /\ Local(p)
    /\ conn[p].up /\ wopen[p] /\ wire[p] = <<>>
    /\ feeds[p] < MaxFeeds
    /\ feeds' = [feeds EXCEPT ![p] = @ + 1]
    /\ \/ /\ ~noise[p].done /\ pc[p] \in {"handshake", "handshake_reply"}
          /\ \E e \in RemoteEphemerals : wire' = [wire EXCEPT ![p] = <<HandshakeFrame(e)>>]
       \/ /\ noise[p].done /\ pc[p] = "rf_header"
          /\ \E h \in HostileHeaders \cup RemoteHeaders :
               wire' = [wire EXCEPT ![p] =
                           <<write_message(noise[p].k, noise[p].nr, to_wire(h))>>]
       \/ /\ noise[p].done /\ pc[p] = "rf_loop" /\ rcv[p].received < hdr[p].size
          /\ wire' = [wire EXCEPT ![p] =
                         <<write_message(noise[p].k, noise[p].nr,
                                         NextChunk(hdr[p], rcv[p].received))>>]
    /\ UNCHANGED <<ep, fr, tk, ctl, linked, flow, pc, conn, setup, noise, wopen, tampered, src, hdr, fs, fs0, rcv, snd, ev, err>>

NextNames ==
    \/ \E p \in Peers : Prepare(p)
    \/ \E p \in Peers : Dial(p)
    \/ \E p \in Peers : Accept(p)
    \/ \E p \in Peers : OpenStream(p)
    \/ \E p \in Peers : InitiatorSend(p)
    \/ \E p \in Peers : InitiatorRecv(p)
    \/ \E p \in Peers : ResponderRecv(p)
    \/ \E p \in Peers : ResponderSend(p)
    \/ \E p \in Peers : ReadHeader(p)
    \/ \E p \in Peers : SendOk(p)
    \/ \E p \in Peers : CreateDirAll(p)
    \/ \E p \in Peers : ChooseDest(p)
    \/ \E p \in Peers : ChooseTemp(p)
    \/ \E p \in Peers : CreateTemp(p)
    \/ \E p \in Peers : ReceiveChunk(p)
    \/ \E p \in Peers : FlushAndVerify(p)
    \/ \E p \in Peers : Rename(p)
    \/ \E p \in Peers : SendDone(p)
    \/ \E p \in Peers : Cleanup(p)
    \/ \E p \in Peers : Close(p)
    \/ \E p \in Peers : RemoteNames(p)
    \/ \E p \in Peers : RemoteFinishes(p)

SpecNames == InitCancel /\ [][NextNames]_vars

\* The path names a file directly inside dir: dir, a separator, and a last
\* component that holds no separator and is neither "." nor "..".
DirectlyInside(dir, path) ==
    /\ Len(path) > Len(dir) + 1
    /\ SubSeq(path, 1, Len(dir) + 1) = dir \o <<47>>
    /\ LET base == SubSeq(path, Len(dir) + 2, Len(path))
       IN  /\ \A i \in 1..Len(base) : base[i] # 47
           /\ base \notin {<<46>>, <<46, 46>>}

\* The paths the session has written: those there now and not before.
NewPaths == DOMAIN fs.dir \ DOMAIN fs0.dir

\* C32: whatever name the header carries, the temp file a receiver creates
\* and the final file it renames to lie directly inside output_dir.
C32_WritesStayInOutputDir ==
    \A p \in Peers : Downloader(p) =>
        /\ rcv[p].temp # <<>> => DirectlyInside(OutputDir, rcv[p].temp)
        /\ rcv[p].dest # <<>> => DirectlyInside(OutputDir, rcv[p].dest)
        /\ \A path \in NewPaths : DirectlyInside(OutputDir, path)

----------------------------------------------------------------------------
(* Two peers of this program in one session.                               *)

InitPair == Init /\ linked

NextPair ==
    \/ \E p \in Peers : Prepare(p)
    \/ \E p \in Peers : Dial(p)
    \/ \E p \in Peers : Accept(p)
    \/ \E p \in Peers : OpenStream(p)
    \/ \E p \in Peers : InitiatorSend(p)
    \/ \E p \in Peers : InitiatorRecv(p)
    \/ \E p \in Peers : ResponderRecv(p)
    \/ \E p \in Peers : ResponderSend(p)
    \/ \E p \in Peers : SendHeader(p)
    \/ \E p \in Peers : ReadAck(p)
    \/ \E p \in Peers : OpenFile(p)
    \/ \E p \in Peers : SendChunk(p)
    \/ \E p \in Peers : SendEnd(p)
    \/ \E p \in Peers : Finish(p)
    \/ \E p \in Peers : wait_for_done(p)
    \/ \E p \in Peers : Close(p)
    \/ \E p \in Peers : ReadHeader(p)
    \/ \E p \in Peers : SendOk(p)
    \/ \E p \in Peers : CreateDirAll(p)
    \/ \E p \in Peers : ChooseDest(p)
    \/ \E p \in Peers : ChooseTemp(p)
    \/ \E p \in Peers : CreateTemp(p)
    \/ \E p \in Peers : ReceiveChunk(p)
    \/ \E p \in Peers : FlushAndVerify(p)
    \/ \E p \in Peers : Rename(p)
    \/ \E p \in Peers : SendDone(p)
    \/ \E p \in Peers : Cleanup(p)
    \/ \E p \in Peers : ConnectionLost(p)
    \/ \E p \in Peers : Tamper(p)

SpecPair == InitPair /\ [][NextPair]_vars

----------------------------------------------------------------------------
(* The order of a driver's events.                                         *)

\* Where the events of the kinds are among those of p.
At(p, kinds) == {i \in 1..Len(ev[p]) : ev[p][i].k \in kinds}

\* Every event at a place of A is before every event at a place of B.
AllBefore(A, B) == \A a \in A : \A b \in B : a < b

\* C33: the sink gets a driver's events in the order the driver produced
\* them: Ticket and QrPayload, of a listener only, are before HandshakeCode,
\* HandshakeCode is before every Progress, and every Progress is before
\* Completed.
C33_EventsInDriverOrder ==
    \A p \in Peers : Local(p) =>
        LET ticket == At(p, {"Ticket"})
            qr == At(p, {"QrPayload"})
            code == At(p, {"HandshakeCode"})
            progress == At(p, {"Progress"})
            completed == At(p, {"Completed"})
        IN  /\ AllBefore(ticket, qr)
            /\ AllBefore(ticket \cup qr, code \cup progress \cup completed)
            /\ AllBefore(code, progress \cup completed)
            /\ AllBefore(progress, completed)
            /\ (progress \cup completed) # {} => code # {}
            /\ qr # {} => ticket # {}
            /\ (code # {} /\ Ops(p).conn = "accept") => (ticket # {} /\ qr # {})
            /\ (ticket \cup qr) # {} => Ops(p).conn = "accept"

\* A listener's whole session: ticket, code, two Progress, Completed.
C33_Witness ==
    \E p \in Peers :
        /\ Local(p) /\ Ops(p).conn = "accept"
        /\ HasEvent(p, "Ticket") /\ HasEvent(p, "HandshakeCode") /\ HasEvent(p, "Completed")
        /\ Cardinality({i \in 1..Len(ev[p]) : ev[p][i].k = "Progress"}) = 2

----------------------------------------------------------------------------
(* An established channel (crypto.rs): encrypted_write on one side,        *)
(* encrypted_read on the other, over one ordered stream.                   *)

\* CHUNK_SIZE: 60 KiB, the longest plaintext of the protocol.
CHUNK_SIZE == 61440

\* The AEAD tag that write_message appends.
TAG_LEN == 16

\* The tag of a message under a key and a nonce.
Tag(k, n) == [i \in 1..TAG_LEN |-> (7 * k + 13 * n + i) % 256]

\* The transport counts its messages.
next_nonce(n) == n + 1

\* encrypted_write on a stream that takes every write: the message of the
\* plaintext with its tag, framed.
encrypted_write(k, n, plaintext) ==
    send_frame(write_message(k, n, plaintext).body \o Tag(k, n))

\* encrypted_read on the unread rest of the stream: the frame, then the
\* message under the reader's key and nonce.
encrypted_read(k, n, rest) ==
    LET frame == recv_frame(rest)
        len == Len(frame.buf)
    IN  IF ~frame.ok THEN [ok |-> FALSE, plaintext |-> <<>>, read |-> frame.read]
        ELSE IF len < TAG_LEN \/ SubSeq(frame.buf, len - TAG_LEN + 1, len) # Tag(k, n)
        THEN [ok |-> FALSE, plaintext |-> <<>>, read |-> frame.read]
        ELSE [ok |-> TRUE,
              plaintext |-> read_message(k, n, [hs |-> FALSE, e |-> 0, k |-> k, n |-> n,
                                                body |-> SubSeq(frame.buf, 1, len - TAG_LEN)]).plaintext,
              read |-> frame.read]

\* The keys of a session.
ChannelKeys == {3, 5}

InitChannel ==
    /\ linked = FALSE
    /\ flow = [p \in Peers |-> "remote"]
    /\ InitCommon
    /\ ctl = NoCtl
    /\ tk = NoTk
    /\ \E k \in ChannelKeys : fr = [NoFr EXCEPT !.k = k]
    /\ ep = NoEp

\* Plaintexts of 0, 1 and CHUNK_SIZE bytes.
PlaintextLens == {0, 1, CHUNK_SIZE}
Plaintexts == {[i \in 1..n |-> b] \o <<>> : n \in PlaintextLens, b \in {0, 255}}

\* One peer writes a plaintext.
ChannelWrite(plaintext) ==
    /\ Len(fr.sent) < MaxFrames
    /\ Reading
    /\ LET r == encrypted_write(fr.k, fr.ns, plaintext)
       IN  fr' = [fr EXCEPT !.stream = @ \o r.bytes,
                            !.ns = IF r.ok THEN next_nonce(@) ELSE @,
                            !.sent = Append(@, [data |-> plaintext, ok |-> r.ok,
                                                wrote |-> Len(r.bytes), foreign |-> FALSE])]
    /\ UNCHANGED <<SessionVars, ctl, tk, ep>>

\* The other peer reads the next plaintext.
ChannelRead ==
    /\ Reading
    /\ Len(fr.got) < Len(fr.sent)
    /\ LET r == encrypted_read(fr.k, fr.nr, SubSeq(fr.stream, fr.pos + 1, Len(fr.stream)))
       IN  fr' = [fr EXCEPT !.pos = @ + r.read,
                            !.nr = IF r.ok THEN next_nonce(@) ELSE @,
                            !.got = Append(@, [ok |-> r.ok, why |-> "", buf |-> r.plaintext,
                                               read |-> r.read])]
    /\ UNCHANGED <<SessionVars, ctl, tk, ep>>

NextChannel ==
    \/ \E plaintext \in Plaintexts : ChannelWrite(plaintext)
    \/ ChannelRead

SpecChannel == InitChannel /\ [][NextChannel]_vars

\* C34: over an established channel the i-th encrypted_read returns the
\* i-th plaintext written with encrypted_write, for plaintexts of at most
\* 60 KiB: every write succeeds, every read succeeds, in order.
C34_ChannelDeliversInOrder ==
    /\ \A i \in 1..Len(fr.sent) : fr.sent[i].ok
    /\ \A i \in 1..Len(fr.got) :
          /\ fr.got[i].ok
          /\ fr.got[i].buf = fr.sent[i].data

\* Two different plaintexts were written and read back, each in its place.
C34_Witness ==
    /\ Len(fr.got) = 2
    /\ fr.sent[1].data # fr.sent[2].data
    /\ Len(fr.sent[1].data) = 1 /\ Len(fr.sent[2].data) = 1
    /\ fr.got[1].buf = fr.sent[1].data /\ fr.got[2].buf = fr.sent[2].data
    /\ fr.nr = 2

\* A plaintext of CHUNK_SIZE bytes was read back.
C34_WitnessChunk ==
    \E i \in 1..Len(fr.got) : fr.got[i].ok /\ Len(fr.got[i].buf) = CHUNK_SIZE

----------------------------------------------------------------------------
(* The terminal event.                                                     *)

\* C35: Completed is the last event of its session: no event of the driver
\* or of its watcher reaches the sink after it, on the sender and on the
\* receiver alike.
C35_CompletedIsLastEvent ==
    \A p \in Peers : Local(p) =>
        \A i \in 1..Len(ev[p]) : ev[p][i].k = "Completed" => i = Len(ev[p])


-----------------------------------------------------------------------------
(* Termination of a session over a reliable connection.                    *)

\* One step of the driver of p: the steps of run_with_sink, run_iroh,
\* run_listen_with_sink, send_file and receive_file, with no loss of the
\* connection and no change of the bytes in flight.
DriverStep(p) ==
    \/ Prepare(p)
    \/ Dial(p)
    \/ Accept(p)
    \/ OpenStream(p)
    \/ InitiatorSend(p)
    \/ InitiatorRecv(p)
    \/ ResponderRecv(p)
    \/ ResponderSend(p)
    \/ SendHeader(p)
    \/ ReadAck(p)
    \/ OpenFile(p)
    \/ SendChunk(p)
    \/ SendEnd(p)
    \/ Finish(p)
    \/ wait_for_done(p)
    \/ Close(p)
    \/ ReadHeader(p)
    \/ SendOk(p)
    \/ CreateDirAll(p)
    \/ ChooseDest(p)
    \/ ChooseTemp(p)
    \/ CreateTemp(p)
    \/ ReceiveChunk(p)
    \/ FlushAndVerify(p)
    \/ Rename(p)
    \/ SendDone(p)
    \/ Cleanup(p)

NextLive == \E p \in Peers : DriverStep(p)

\* Each driver is a task of the runtime: a step that stays possible is taken.
SpecLive == InitPair /\ [][NextLive]_vars /\ \A p \in Peers : WF_vars(DriverStep(p))

\* The listener p has accepted a connection of its peer.
Accepted(p) == setup[p].conn = "accept"

\* The driver of p has returned, Ok or an error.
Returned(p) == pc[p] \in {"ok", "err"}

\* p is in an encrypted_read (or a handshake read) with no frame to take, on
\* a stream its peer has not ended: the read does not return.
BlockedOnRead(p) ==
    /\ pc[p] \in {"sf_ack", "wait_for_done", "rf_header", "rf_loop"}
    /\ ~CanRecv(p)
    /\ ~RecvEof(p)

\* C36: once the listener has accepted a connection, over a reliable
\* connection, with the source file unchanged and under weak fairness of each
\* driver, both drivers eventually return, Ok or an error.
C36_BothDriversTerminate ==
    (\E p \in Peers : Accepted(p)) ~> (\A p \in Peers : Returned(p))

\* C36, the safety half: once the listener has accepted a connection, in no
\* reachable state are both drivers blocked in a read, each waiting for a
\* frame of the other.
C36_NoMutualWait ==
    (\E p \in Peers : Accepted(p)) => ~(\A p \in Peers : BlockedOnRead(p))


-----------------------------------------------------------------------------
(* The canceled Status and the sessions it is pushed for.                  *)

\* Where the queue's history holds a canceled Status.
CanceledPlaces == {i \in 1..Len(ctl.log) : ctl.log[i].m = "Transfer canceled by user."}

\* C37: the canceled Status is enqueued only for a session still running: none
\* follows the Completed or Error record of its own session, and a session
\* has one canceled Status at most.
C37_CanceledOnlyWhileRunning ==
    /\ \A i \in CanceledPlaces :
         \A j \in 1..(i - 1) :
             ctl.log[j].s = ctl.log[i].s => ctl.log[j].k \notin {"Completed", "Error"}
    /\ \A i, j \in CanceledPlaces : ctl.log[i].s = ctl.log[j].s => i = j

\* C37, the part that holds: a session has one canceled Status at most, and a
\* controller that never started a session has none.
C37_OneCanceledPerSession ==
    /\ \A i, j \in CanceledPlaces : ctl.log[i].s = ctl.log[j].s => i = j
    /\ ctl.started = 0 => CanceledPlaces = {}


-----------------------------------------------------------------------------
(* The sessions of one controller in its queue.                            *)

\* C38: the events of successive sessions do not interleave: after the
\* started Status of a session, no record of an earlier session of the
\* controller, its driver's or its watcher's, is enqueued.
C38_SessionsDoNotInterleave ==
    ctl.host = "controller" =>
        \A n \in Sessions :
            StartedAt(n) # 0 =>
                \A i \in (StartedAt(n) + 1)..Len(ctl.log) : ctl.log[i].s >= n

\* C38, what does hold: the records the controller itself pushes are in the
\* order of the sessions, the canceled Status of a session before the started
\* Status of the next.
C38_ControllerRecordsInOrder ==
    ctl.host = "controller" =>
        \A n \in Sessions :
            (n >= 2 /\ StartedAt(n) # 0) =>
                /\ StartedAt(n - 1) < StartedAt(n)
                /\ CanceledAt(n - 1) < StartedAt(n)


-----------------------------------------------------------------------------
(* The Progress events of a session.                                       *)

\* The Progress events of p, in the order of their emission.
ProgressOf(p) == SelectSeq(ev[p], LAMBDA e : e.k = "Progress")

\* The data frames p has written (send_file: every frame after the header)
\* or taken (receive_file: every frame with a plaintext that is not empty).
DataFrames(p) ==
    IF Uploader(p) THEN (IF snd[p].opened THEN noise[p].ns - 1 ELSE 0)
    ELSE Len(rcv[p].frames)

\* One Progress for each data frame, each with the header's size as total,
\* done growing from each to the next.
ProgressPerFrame(p) ==
    LET progress == ProgressOf(p)
    IN  /\ Len(progress) = DataFrames(p)
        /\ \A i \in 1..Len(progress) : progress[i].b = hdr[p].size
        /\ \A i \in 1..(Len(progress) - 1) : progress[i].a < progress[i + 1].a

\* With Completed emitted, the last Progress (if any) has done = total.
CompletedAtTotal(p) ==
    LET progress == ProgressOf(p)
    IN  (HasEvent(p, "Completed") /\ progress # <<>>) =>
            progress[Len(progress)].a = progress[Len(progress)].b

\* A sender and a receiver over a reliable connection, the sender's file
\* open to other programs while the session runs.
InitGrow == InitPair /\ Ops("L").transfer # Ops("D").transfer

\* Another program appends to the sender's file.
FileGrows(p) ==
    /\ FileChanges(p)
    /\ Len(src'.data) > Len(src.data)
    /\ SubSeq(src'.data, 1, Len(src.data)) = src.data

NextGrow ==
    \/ \E p \in Peers : DriverStep(p)
    \/ \E p \in Peers : FileGrows(p)

SpecGrow == InitGrow /\ [][NextGrow]_vars

\* C39 as stated: one Progress per data frame, total the header's size, done
\* strictly increasing and never above total, and at Completed the last
\* Progress has done = total.
C39_ProgressWithinTotal ==
    \A p \in Peers : Local(p) =>
        /\ ProgressPerFrame(p)
        /\ \A i \in 1..Len(ProgressOf(p)) : ProgressOf(p)[i].a <= ProgressOf(p)[i].b
        /\ CompletedAtTotal(p)

\* C39: one Progress per data frame, total the header's size, done strictly
\* increasing, and at Completed the last Progress has done = total, so that
\* done stays within total in every session that completes; a session with a
\* Progress whose done is above total does not complete, and on the receiver
\* only the last Progress of a session can be one.
C39_ProgressPerDataFrame ==
    \A p \in Peers : Local(p) =>
        LET progress == ProgressOf(p)
        IN  /\ ProgressPerFrame(p)
            /\ CompletedAtTotal(p)
            /\ HasEvent(p, "Completed") =>
                  \A i \in 1..Len(progress) : progress[i].a <= progress[i].b
            /\ Downloader(p) =>
                  \A i \in 1..(Len(progress) - 1) : progress[i].a < progress[i].b

\* The file grew under a sender: its last Progress is above the total, and
\* so is the last Progress of its receiver; neither has completed.
C39_Witness ==
    \A p \in Peers :
        /\ Len(ProgressOf(p)) >= 1
        /\ ProgressOf(p)[Len(ProgressOf(p))].a > hdr[p].size
        /\ pc[p] = "err"

\* A transfer in two frames has completed on both sides.
C39_WitnessCompleted ==
    \A p \in Peers :
        /\ HasEvent(p, "Completed")
        /\ Len(ProgressOf(p)) = 2
        /\ ProgressOf(p)[2].a = hdr[p].size


-----------------------------------------------------------------------------
(* The prefix, as is_ticket and deserialize see it.                        *)

\* The part of the target after its colon is the base64url of a node address
\* that deserialize takes: the same payload under the prefix "p2psh:" decodes.
PayloadDecodes(s) == deserialize(WithColon(TICKET_PREFIX) \o Payload(s)).ok

\* C40: a target that is_ticket accepts is never rejected by deserialize for
\* its prefix, and is accepted when the part after its colon is the base64url
\* of a valid address.
C40_RecognisedTargetsDecode ==
    (tk.is = "yes" /\ tk.out.done) =>
        /\ tk.out.why # "prefix"
        /\ PayloadDecodes(Trim(tk.target)) => tk.out.ok

\* C40, what does hold: a target that starts with the lower-case prefix is
\* accepted by is_ticket and never rejected for its prefix, and is accepted
\* by deserialize when its payload decodes.
C40_LowerCaseTargetsDecode ==
    (tk.is # "none" /\ tk.out.done /\ starts_with(Trim(tk.target), WithColon(TICKET_PREFIX))) =>
        /\ tk.is = "yes"
        /\ tk.out.why # "prefix"
        /\ PayloadDecodes(Trim(tk.target)) => tk.out.ok

=============================================================================
